---- MODULE Spec2Model ----
(***************************************************************************)
(* Model of the epub2audio synthesis core: the text segmenter              *)
(* (text_segmenter.py) and the retry/split orchestrator (tts_pipeline.py). *)
(* A text is a sequence of one-character strings.                          *)
(***************************************************************************)
EXTENDS Integers, Sequences, FiniteSets, TLC

\* ------------------------------------------------------------------------
\* Bounds of the model
\* ------------------------------------------------------------------------
MaxTextLen == 3

Alphabet == {"a", " ", "\n", "."}

RECURSIVE TextsOfLen(_)
TextsOfLen(n) ==
    IF n = 0 THEN {<<>>}
    ELSE {Append(t, c) : t \in TextsOfLen(n - 1), c \in Alphabet}

Texts == UNION {TextsOfLen(n) : n \in 0..MaxTextLen}

\* ------------------------------------------------------------------------
\* Character classes (Python str.strip / \s, and the module's regexes)
\* ------------------------------------------------------------------------
Whitespace == {" ", "\n", "\t", "\r"}

SentenceEndChars == {".", "!", "?"}

ClosingChars == {"\"", "'", ")", "]"}

TerminalChars == {".", "!", "?", ";", ":"}

PipelineTerminalChars == {".", "!", "?", ";", ":", ")", "]", "\"", "'"}

IsBlank(s) == \A i \in 1..Len(s) : s[i] \in Whitespace

\* str.strip()
Strip(s) ==
    IF IsBlank(s) THEN <<>>
    ELSE LET a == CHOOSE i \in 1..Len(s) :
                    s[i] \notin Whitespace /\ \A j \in 1..(i - 1) : s[j] \in Whitespace
             b == CHOOSE i \in 1..Len(s) :
                    s[i] \notin Whitespace /\ \A j \in (i + 1)..Len(s) : s[j] \in Whitespace
         IN SubSeq(s, a, b)

\* s[:n] and s[n:]
Take(s, n) == SubSeq(s, 1, IF n < Len(s) THEN n ELSE Len(s))

Drop(s, n) == SubSeq(s, n + 1, Len(s))

\* _WHITESPACE_RE.sub(" ", s): every maximal whitespace run becomes one space
RECURSIVE CollapseWhitespace(_)
CollapseWhitespace(s) ==
    IF s = <<>> THEN <<>>
    ELSE LET n == Len(s)
             init == CollapseWhitespace(SubSeq(s, 1, n - 1))
         IN IF s[n] \in Whitespace
            THEN IF n > 1 /\ s[n - 1] \in Whitespace THEN init ELSE Append(init, " ")
            ELSE Append(init, s[n])

\* _PARAGRAPH_SPLIT_RE.split(text): split at every maximal run of 2+ newlines
RECURSIVE ParagraphSplit(_, _, _)
ParagraphSplit(s, i, buf) ==
    IF i > Len(s) THEN <<buf>>
    ELSE IF s[i] = "\n" /\ i < Len(s) /\ s[i + 1] = "\n"
         THEN LET e == CHOOSE k \in (i + 1)..Len(s) :
                          /\ \A j \in i..k : s[j] = "\n"
                          /\ (k = Len(s) \/ s[k + 1] # "\n")
              IN <<buf>> \o ParagraphSplit(s, e + 1, <<>>)
         ELSE ParagraphSplit(s, i + 1, Append(buf, s[i]))

NonEmpty(t) == t # <<>>

\* paragraph = _WHITESPACE_RE.sub(" ", paragraph.strip()) of every paragraph
CleanParagraphs(raw) ==
    [k \in 1..Len(raw) |-> CollapseWhitespace(Strip(raw[k]))]

\* BasicTextSegmenter._split_paragraphs
SplitParagraphs(text) ==
    SelectSeq(CleanParagraphs(ParagraphSplit(text, 1, <<>>)), NonEmpty)

\* end index of the match of [.!?]+["')\]]* that starts at i
SentenceEndMatch(s, i) ==
    LET p == CHOOSE k \in i..Len(s) :
                 /\ \A j \in i..k : s[j] \in SentenceEndChars
                 /\ (k = Len(s) \/ s[k + 1] \notin SentenceEndChars)
    IN CHOOSE k \in p..Len(s) :
           /\ \A j \in (p + 1)..k : s[j] \in ClosingChars
           /\ (k = Len(s) \/ s[k + 1] \notin ClosingChars)

\* "if sentence: sentences.append(sentence)"
OneIfNonEmpty(sentence) == IF sentence # <<>> THEN <<sentence>> ELSE <<>>

RECURSIVE SplitSentencesFrom(_, _, _)

\* _split_sentences at a terminator s[i..e]: the buffer and the terminator
\* make a sentence
SentenceAt(s, i, e, buffer) ==
    OneIfNonEmpty(Strip(buffer \o SubSeq(s, i, e))) \o SplitSentencesFrom(s, e + 1, <<>>)

\* _split_sentences from s[i] on, with the text buffered so far
SplitSentencesFrom(s, i, buffer) ==
    IF i > Len(s) THEN OneIfNonEmpty(Strip(buffer))
    ELSE IF s[i] \in SentenceEndChars
         THEN SentenceAt(s, i, SentenceEndMatch(s, i), buffer)
         ELSE SplitSentencesFrom(s, i + 1, Append(buffer, s[i]))

SplitSentences(text) == SplitSentencesFrom(text, 1, <<>>)

\* ------------------------------------------------------------------------
\* BasicTextSegmenter (text_segmenter.py).  A segmenter g is a record
\* [max_chars, min_chars, hard_max_chars, ensure_terminal_punctuation];
\* hard_max_chars is <<>> for None and <<n>> for the number n.
\* ------------------------------------------------------------------------
MaxOf(a, b) == IF a >= b THEN a ELSE b

\* BasicTextSegmenter.__post_init__: the constructor accepts g
ValidSegmenter(g) ==
    /\ g.max_chars > 0
    /\ g.min_chars >= 0
    /\ g.min_chars <= g.max_chars
    /\ (g.ensure_terminal_punctuation => g.max_chars >= 2)

\* BasicTextSegmenter._hard_max: int(max_chars * 1.25) when unset
HardMax(g) ==
    IF g.hard_max_chars = <<>> THEN (g.max_chars * 5) \div 4
    ELSE MaxOf(g.max_chars, g.hard_max_chars[1])

\* BasicTextSegmenter._max_limit
MaxLimit(g) ==
    IF ~g.ensure_terminal_punctuation THEN g.max_chars
    ELSE MaxOf(1, g.max_chars - 1)

\* BasicTextSegmenter._hard_limit
HardLimit(g) ==
    IF ~g.ensure_terminal_punctuation THEN HardMax(g)
    ELSE MaxOf(1, HardMax(g) - 1)

\* _TERMINAL_PUNCT_RE.search(text): text ends with [.!?;:]+["')\]]*
EndsWithTerminalPunct(t) ==
    \E k \in 1..Len(t) :
        /\ t[k] \in TerminalChars
        /\ \A j \in (k + 1)..Len(t) : t[j] \in ClosingChars

SegEnsureTerminalPunctuation_Always(t) == Append(t, ".")

\* text_segmenter._ensure_terminal_punctuation
SegEnsureTerminalPunctuation(t) ==
    IF EndsWithTerminalPunct(t) THEN t ELSE Append(t, ".")

\* str.split(): the maximal runs of non-whitespace characters
RECURSIVE WordsFrom(_, _, _)
WordsFrom(s, i, word) ==
    IF i > Len(s) THEN (IF word # <<>> THEN <<word>> ELSE <<>>)
    ELSE IF s[i] \in Whitespace
         THEN (IF word # <<>> THEN <<word>> ELSE <<>>) \o WordsFrom(s, i + 1, <<>>)
         ELSE WordsFrom(s, i + 1, Append(word, s[i]))

Words(s) == WordsFrom(s, 1, <<>>)

\* BasicTextSegmenter._split_long_word: slices of _hard_limit characters
RECURSIVE SplitLongWord(_, _)
SplitLongWord(g, word) ==
    IF word = <<>> THEN <<>>
    ELSE <<Take(word, HardLimit(g))>> \o SplitLongWord(g, Drop(word, HardLimit(g)))

\* the loop of BasicTextSegmenter._split_long_sentence over words[i..]
RECURSIVE SplitLongSentenceLoop(_, _, _, _, _)
SplitLongSentenceLoop(g, words, i, pieces, current) ==
    IF i > Len(words)
    THEN IF current # <<>> THEN Append(pieces, current) ELSE pieces
    ELSE LET word == words[i]
             candidate == current \o <<" ">> \o word
         IN IF current = <<>>
            THEN SplitLongSentenceLoop(g, words, i + 1, pieces, word)
            ELSE IF Len(candidate) <= HardLimit(g)
                 THEN SplitLongSentenceLoop(g, words, i + 1, pieces, candidate)
                 ELSE IF Len(word) > HardLimit(g)
                      THEN SplitLongSentenceLoop(g, words, i + 1,
                               Append(pieces, current) \o SplitLongWord(g, word), <<>>)
                      ELSE SplitLongSentenceLoop(g, words, i + 1,
                               Append(pieces, current), word)

\* BasicTextSegmenter._split_long_sentence
SplitLongSentence(g, sentence) ==
    SplitLongSentenceLoop(g, Words(sentence), 1, <<>>, <<>>)

FlushChunk_SameIndex(g, st, chunk) ==
    IF chunk = <<>> THEN [st EXCEPT !.current = <<>>]
    ELSE [segments |-> Append(st.segments,
                              [index |-> st.index,
                               text |-> IF g.ensure_terminal_punctuation
                                        THEN SegEnsureTerminalPunctuation(chunk)
                                        ELSE chunk]),
          current |-> <<>>,
          index |-> st.index]

\* flush() of BasicTextSegmenter.segment after "chunk = current.strip()";
\* st = [segments, current, index]
FlushChunk(g, st, chunk) ==
    IF chunk = <<>> THEN [st EXCEPT !.current = <<>>]
    ELSE [segments |-> Append(st.segments,
                              [index |-> st.index,
                               text |-> IF g.ensure_terminal_punctuation
                                        THEN SegEnsureTerminalPunctuation(chunk)
                                        ELSE chunk]),
          current |-> <<>>,
          index |-> st.index + 1]

\* flush() of BasicTextSegmenter.segment
Flush(g, st) == FlushChunk(g, st, Strip(st.current))

\* append_piece() of BasicTextSegmenter.segment after "piece = piece.strip()"
AppendStripped(g, st, piece) ==
    LET candidate == st.current \o <<" ">> \o piece
    IN IF piece = <<>> THEN st
       ELSE IF st.current = <<>> THEN [st EXCEPT !.current = piece]
       ELSE IF Len(candidate) <= MaxLimit(g) THEN [st EXCEPT !.current = candidate]
       ELSE IF Len(st.current) < g.min_chars /\ Len(candidate) <= HardLimit(g)
            THEN [st EXCEPT !.current = candidate]
       ELSE [Flush(g, st) EXCEPT !.current = piece]

\* append_piece() of BasicTextSegmenter.segment
AppendPiece(g, st, rawPiece) == AppendStripped(g, st, Strip(rawPiece))

RECURSIVE AppendPieces(_, _, _, _)
AppendPieces(g, st, pieces, i) ==
    IF i > Len(pieces) THEN st
    ELSE AppendPieces(g, AppendPiece(g, st, pieces[i]), pieces, i + 1)

\* one sentence of "for sentence in sentences" of BasicTextSegmenter.segment
SegmentSentence(g, st, sentence) ==
    IF Len(sentence) > HardLimit(g)
    THEN AppendPieces(g, st, SplitLongSentence(g, sentence), 1)
    ELSE AppendPiece(g, st, sentence)

\* "for sentence in sentences" of BasicTextSegmenter.segment
RECURSIVE SegmentSentences(_, _, _, _)
SegmentSentences(g, st, sentences, i) ==
    IF i > Len(sentences) THEN st
    ELSE SegmentSentences(g, SegmentSentence(g, st, sentences[i]), sentences, i + 1)

\* "if current and len(current) >= self.min_chars: flush()"
ParagraphEnd(g, st) ==
    IF st.current # <<>> /\ Len(st.current) >= g.min_chars THEN Flush(g, st) ELSE st

\* "for paragraph in paragraphs" of BasicTextSegmenter.segment
RECURSIVE SegmentParagraphs(_, _, _, _)
SegmentParagraphs(g, st, paragraphs, i) ==
    IF i > Len(paragraphs) THEN st
    ELSE SegmentParagraphs(g,
             ParagraphEnd(g, SegmentSentences(g, st, SplitSentences(paragraphs[i]), 1)),
             paragraphs, i + 1)

\* "if current: flush()" after the last paragraph
FinalFlush(g, st) == IF st.current # <<>> THEN Flush(g, st) ELSE st

\* the accumulator of BasicTextSegmenter.segment before the first paragraph
EmptyAccumulator == [segments |-> <<>>, current |-> <<>>, index |-> 0]

\* BasicTextSegmenter.segment: the list of Segment records
Segment(g, text) ==
    IF text = <<>> THEN <<>>
    ELSE FinalFlush(g, SegmentParagraphs(g, EmptyAccumulator,
                                         SplitParagraphs(text), 1)).segments

\* [segment.text for segment in ...]
TextsOf(segs) == [k \in 1..Len(segs) |-> segs[k].text]

SegmentTexts(g, text) == TextsOf(Segment(g, text))

\* ------------------------------------------------------------------------
\* Pure helpers of tts_pipeline.py.  Settings st is a record
\* [max_chars, min_chars, hard_max_chars, max_retries].
\* ------------------------------------------------------------------------

\* tts_pipeline._ensure_terminal_punctuation
EnsureTerminalPunctuation(t) ==
    IF t # <<>> /\ t[Len(t)] \in PipelineTerminalChars THEN t ELSE Append(t, ".")

\* "if piece: pieces.append(_ensure_terminal_punctuation(piece))"
HardPiece(piece) ==
    IF piece # <<>> THEN <<EnsureTerminalPunctuation(piece)>> ELSE <<>>

RECURSIVE HardSplitLoop(_, _)

HardSplitLoop_SkipsChar(current, max_chars) ==
    IF current = <<>> THEN <<>>
    ELSE HardPiece(Strip(Take(current, max_chars)))
             \o HardSplitLoop(Strip(Drop(current, max_chars + 1)), max_chars)

\* the while loop of tts_pipeline._hard_split
HardSplitLoop(current, max_chars) ==
    IF current = <<>> THEN <<>>
    ELSE HardPiece(Strip(Take(current, max_chars)))
             \o HardSplitLoop(Strip(Drop(current, max_chars)), max_chars)

\* tts_pipeline._hard_split
HardSplit(text, max_chars) == HardSplitLoop(Strip(text), max_chars)

\* the BasicTextSegmenter that synthesize_text and _split_text construct
SegmenterOf(st) ==
    [max_chars |-> st.max_chars,
     min_chars |-> st.min_chars,
     hard_max_chars |-> st.hard_max_chars,
     ensure_terminal_punctuation |-> TRUE]

\* tts_pipeline._split_text after the segmentation
SplitTextFrom(segs, text, st) ==
    IF Len(segs) > 1 THEN segs ELSE HardSplit(text, st.max_chars)

\* tts_pipeline._split_text
SplitText(text, st) == SplitTextFrom(SegmentTexts(SegmenterOf(st), text), text, st)

\* ------------------------------------------------------------------------
\* Cache addressing (audio_cache.py) and _resolve_output_path.
\* An optional value is <<>> for None and <<v>> for the value v.
\* ------------------------------------------------------------------------

\* "x or y" of two optional strings: None and "" are falsy
OrElse(x, y) == IF x = <<>> \/ x = <<"">> THEN y ELSE x

\* "x or ''" of an optional string
OrEmpty(x) == IF x = <<>> THEN "" ELSE x[1]

\* round(speed, 4), speed counted in 1/100000ths, result in 1/10000ths.
\* No float lies exactly halfway between two 4-decimal values and Python
\* rounds by the exact binary value, so the speeds of the model never end
\* in 5 and the operator is defined for speed % 10 # 5 only.
Round4(speed) ==
    IF speed % 10 < 5 THEN speed \div 10 ELSE speed \div 10 + 1

\* the characters in front of the digest in f"tts_{digest}"
KeyPrefix == <<"t", "t", "s", "_">>

ChunkCacheKey_NoChannels(t, model_id, voice, lang_code, ref_audio_id, ref_text, speed, sample_rate, channels) ==
    [prefix |-> KeyPrefix,
     digest |-> [v |-> 1,
                 model_id |-> model_id,
                 voice |-> OrEmpty(voice),
                 lang_code |-> OrEmpty(lang_code),
                 ref_audio_id |-> OrEmpty(ref_audio_id),
                 ref_text |-> OrEmpty(ref_text),
                 speed |-> Round4(speed),
                 sample_rate |-> sample_rate,
                 text |-> t]]

\* audio_cache.chunk_cache_key: "tts_" + SHA-256 of the canonical JSON of
\* the payload; the digest is represented by the payload it is computed from
ChunkCacheKey(t, model_id, voice, lang_code, ref_audio_id, ref_text, speed, sample_rate, channels) ==
    [prefix |-> KeyPrefix,
     digest |-> [v |-> 1,
                 model_id |-> model_id,
                 voice |-> OrEmpty(voice),
                 lang_code |-> OrEmpty(lang_code),
                 ref_audio_id |-> OrEmpty(ref_audio_id),
                 ref_text |-> OrEmpty(ref_text),
                 speed |-> Round4(speed),
                 sample_rate |-> sample_rate,
                 channels |-> channels,
                 text |-> t]]

\* "key[:2] if len(key) >= 2 else '00'" for the characters of a key
PrefixOf(chars) == IF Len(chars) >= 2 THEN Take(chars, 2) ELSE <<"0", "0">>

\* the same for a key [prefix, digest]: the characters of the prefix come
\* first, and those of the digest are looked at (and have to be known)
\* only when the prefix is shorter than two characters
Shard(key) ==
    IF Len(key.prefix) >= 2 THEN PrefixOf(key.prefix)
    ELSE PrefixOf(key.prefix \o key.digest)

\* AudioCacheLayout.chunk_path: <root>/tts/chunks/<key[:2]>/<key>.<ext>
ChunkPath(root, key, ext) ==
    [dir |-> <<root, "tts", "chunks", Shard(key)>>, name |-> key, ext |-> ext]

NoPath == <<>>

\* tts_pipeline._resolve_output_path
ResolveOutputPath(t, st, resolved_voice, resolved_lang, cacheRoot, output_dir, output_format) ==
    IF cacheRoot = <<>> /\ output_dir = <<>> THEN NoPath
    ELSE LET key == ChunkCacheKey(t, st.model_id, resolved_voice, resolved_lang,
                                  st.ref_audio_id, st.ref_text, st.speed,
                                  st.sample_rate, st.channels)
         IN IF cacheRoot # <<>>
            THEN <<ChunkPath(cacheRoot[1], key, output_format)>>
            ELSE <<[dir |-> <<output_dir[1]>>, name |-> key, ext |-> output_format]>>

\* ------------------------------------------------------------------------
\* The synthesis orchestrator (tts_pipeline.synthesize_text) as a state
\* machine.  The recursion _synthesize_with_retry <-> _split_and_synthesize
\* is an explicit stack of frames [pieces, i, depth]: the "for" loop over
\* pieces, the piece being processed and the depth handed to
\* _synthesize_with_retry for these pieces.  A step is everything the
\* orchestrator does up to and including its reaction to one engine call.
\* ------------------------------------------------------------------------
VARIABLES
    text,          \* the text argument
    settings,      \* TtsSynthesisSettings
    cache,         \* AudioCacheLayout root: <<>> for None, <<root>> otherwise
    engine,        \* the injected engine: a test double or an MlxTtsEngine
    status,        \* "init", "running", "returned", "raised"
    error,         \* the exception that left synthesize_text, "" if none
    segments,      \* local "segments" of synthesize_text (segment texts)
    stack,         \* frames of the loops in flight, innermost last
    attempts,      \* local "attempts" of the running _synthesize_with_retry
    audio_chunks,  \* chunks collected so far, in the order of the result list
    calls,         \* log of engine.synthesize calls
    sleeps,        \* log of sleep_fn calls
    files,         \* paths of the non-empty audio files on disk
    run,           \* 1 for the first synthesize_text call, 2 for a re-run
    history        \* record of the completed first run, <<>> before a re-run

\* the state of a synthesize_text run
TtsVars == <<text, settings, cache, engine, status, error, segments, stack, attempts,
             audio_chunks, calls, sleeps, files, run, history>>

\* a call of one of the pure functions of the package
VARIABLES
    call,          \* the function called and its arguments, <<>> if none
    returned       \* <<>> before the call returns, <<value>> afterwards

PureVars == <<call, returned>>

\* the processing of one book: _process_book and _collect_chapter_audio
\* (pipeline.py)
VARIABLES
    config,           \* the fields of config.tts that the book processing reads
    cpu_count,        \* os.cpu_count(): <<>> for None, <<n>> otherwise
    book,             \* book.chapters, a sequence of Chapter records
    workers,          \* local "workers" of _process_book, <<>> before it is set
    pc,               \* "idle", "start", "loop", "pool", "returned", "raised", "collected"
    futures,          \* per chapter position: "none", "submitted", "running", "done", "collected"
    events,           \* per chapter position: what happened in _process_chapter, "" before
    chapter_results,  \* local "chapter_results" of _process_book
    processed,        \* chapter indices in the order _process_chapter was entered
    completed,        \* chapter indices in the order the pool's results were
                      \* appended; its length is the counter "completed"
    chapter_audio,    \* the list returned by _collect_chapter_audio, <<>> before
    thread_state,     \* threading.local(): per worker thread <<>> or <<engine>>
    engine_use        \* per chapter position <<>> or <<[worker, engine]>>: the
                      \* worker that ran _process_chapter and the engine it passed

BookVars == <<config, cpu_count, book, workers, pc, futures, events, chapter_results,
              processed, completed, chapter_audio, thread_state, engine_use>>

\* a run over several books: run_pipeline (pipeline.py)
VARIABLES
    sources,          \* the list returned by _expand_inputs
    run_results,      \* local "results" of run_pipeline
    state_store,      \* JsonStateStore: per book id <<>> or <<PipelineState>>
    out_files,        \* per book slug <<>> or <<content>> of <out>/<slug>/<slug>.m4b
    faults,           \* per processed source, what happened to it
    run_pc            \* "idle", "loop" or "returned"

RunVars == <<sources, run_results, state_store, out_files, faults, run_pc>>

\* one chapter over several runs: _process_chapter (pipeline.py) and
\* FfmpegAudioProcessor (audio_processing.py)
VARIABLES
    chunk_files,      \* the chunk files of the chapter, in index order
    normalize_audio,  \* config.audio.normalize
    stitched_wav,     \* <<>> or <<file>>: the file at the chapter's stitched path
    normalized_wav,   \* <<>> or <<file>>: the file at the normalized path
    chapter_runs      \* the ChapterResult of every run so far

StitchVars == <<chunk_files, normalize_audio, stitched_wav, normalized_wav, chapter_runs>>

\* what no step of synthesize_text touches
NotTts == <<PureVars, BookVars, RunVars, StitchVars>>

vars == <<TtsVars, PureVars, BookVars, RunVars, StitchVars>>

\* what no step of a run changes
Arguments == <<text, settings, cache, engine, run, history>>

\* the depth limit of _split_and_synthesize
MaxSplitDepth == 8

\* settings the model draws from
MaxRetriesBound == 2

\* (max_chars, min_chars, hard_max_chars) of the settings: each keeps
\* min_chars <= max_chars <= hard_max
Limits ==
    {<<2, 0, <<>>>>, <<2, 2, <<4>>>>, <<3, 0, <<>>>>, <<3, 2, <<4>>>>, <<5, 3, <<>>>>}

\* backoff_base and backoff_jitter are floats: the model counts both in
\* hundredths (100 is 1.0), and so the delays
Scale == 100

SettingsSet ==
    {[max_chars |-> l[1], min_chars |-> l[2], hard_max_chars |-> l[3],
      max_retries |-> r, model_id |-> "model", lang_code |-> <<>>,
      ref_audio_id |-> <<>>, ref_text |-> <<>>, speed |-> 100000,
      sample_rate |-> 24000, channels |-> 1,
      backoff_base |-> Scale, backoff_jitter |-> 0] : l \in Limits, r \in (MaxRetriesBound - 1)..MaxRetriesBound}

\* the settings of the runs that look at the delays: one choice of limits,
\* several of backoff_base and backoff_jitter (negative, zero, positive)
BackoffSettings ==
    {[st EXCEPT !.max_retries = r, !.backoff_base = b, !.backoff_jitter = j] :
        st \in {x \in SettingsSet : x.max_chars = 2 /\ x.min_chars = 0},
        r \in MaxRetriesBound..(MaxRetriesBound + 1),
        b \in {Scale, 250}, j \in {0 - 50, 0, 50}}

BackoffDelay_Linear(attempt, base, jitter) ==
    IF jitter <= 0 THEN base * (attempt + 1)
    ELSE base * (attempt + 1) + (base * (attempt + 1) * jitter) \div Scale

\* _backoff_delay
BackoffDelay(attempt, base, jitter) ==
    IF jitter <= 0 THEN base * (2 ^ attempt)
    ELSE base * (2 ^ attempt) + (base * (2 ^ attempt) * jitter) \div Scale

\* the voice, output_dir and output_format arguments of synthesize_text
VoiceArg == <<>>

OutputDirArg == <<>>

OutputFormatArg == "wav"

Top == stack[Len(stack)]

\* segment.text of the running _synthesize_with_retry
CurrentText == Top.pieces[Top.i]

\* the loop indexes of all frames: the position of the current piece in the
\* tree of segments and split pieces
Position == [k \in 1..Len(stack) |-> stack[k].i]

\* the current piece is done: go on with the next piece of the innermost
\* loop that has one; a finished loop returns to its caller's loop
RECURSIVE Advance(_)
Advance(stk) ==
    IF stk = <<>> THEN <<>>
    ELSE LET top == stk[Len(stk)]
         IN IF top.i < Len(top.pieces)
            THEN [stk EXCEPT ![Len(stk)].i = top.i + 1]
            ELSE Advance(SubSeq(stk, 1, Len(stk) - 1))

Extend_Front(chunks, new) == new \o chunks

\* audio_chunks.extend(...) / chunks.extend(...)
Extend(chunks, new) == chunks \o new

\* number of pieces that the loops in flight still have to process after
\* the current one
RECURSIVE PendingIn(_)
PendingIn(stk) ==
    IF stk = <<>> THEN 0
    ELSE LET top == stk[Len(stk)]
         IN (Len(top.pieces) - top.i) + PendingIn(SubSeq(stk, 1, Len(stk) - 1))

OutputPath_PerAttempt ==
    IF cache = <<>> THEN NoPath
    ELSE <<[dir |-> <<cache[1], "tts", "chunks", <<"t", "t">>>>,
            name |-> <<CurrentText, attempts, Len(calls)>>, ext |-> "wav"]>>

\* engine_config["output_path"] of the call about to be made
\* (_synthesize_with_retry, lines 117-138)
OutputPath ==
    ResolveOutputPath(CurrentText, settings,
                      OrElse(VoiceArg, engine.voice),
                      OrElse(settings.lang_code, engine.lang_code),
                      cache, OutputDirArg, OutputFormatArg)

\* one entry of the engine call log; rendered: the engine produced new audio
CallRecord(outcome, rendered) ==
    [text |-> CurrentText, outcome |-> outcome, attempt |-> attempts,
     position |-> Position, pending |-> PendingIn(stack),
     output_path |-> OutputPath, rendered |-> rendered]

\* a test double: any engine whose calls return or raise
StubEngine == [kind |-> "stub", voice |-> <<>>, lang_code |-> <<>>,
               max_input_chars |-> <<>>]

\* no pure function is being called
NoCall ==
    /\ call = <<>>
    /\ returned = <<>>

\* no chapter is post-processed
NoStitch ==
    /\ chunk_files = <<>>
    /\ normalize_audio = FALSE
    /\ stitched_wav = <<>>
    /\ normalized_wav = <<>>
    /\ chapter_runs = <<>>

\* run_pipeline is not running
NoPipeline ==
    /\ sources = <<>>
    /\ run_results = <<>>
    /\ state_store = <<>>
    /\ out_files = <<>>
    /\ faults = <<>>
    /\ run_pc = "idle"

\* no book is being processed
NoBook ==
    /\ config = <<>>
    /\ cpu_count = <<>>
    /\ book = <<>>
    /\ workers = <<>>
    /\ pc = "idle"
    /\ futures = <<>>
    /\ events = <<>>
    /\ chapter_results = <<>>
    /\ processed = <<>>
    /\ completed = <<>>
    /\ chapter_audio = <<>>
    /\ thread_state = <<>>
    /\ engine_use = <<>>

InitRun ==
    /\ status = "init"
    /\ error = ""
    /\ segments = <<>>
    /\ stack = <<>>
    /\ attempts = 0
    /\ audio_chunks = <<>>
    /\ calls = <<>>
    /\ sleeps = <<>>

Init ==
    /\ text \in Texts
    /\ settings \in SettingsSet
    /\ cache = <<>>
    /\ engine = StubEngine
    /\ InitRun
    /\ files = {}
    /\ run = 1
    /\ history = <<>>
    /\ NoCall
    /\ NoBook
    /\ NoPipeline
    /\ NoStitch

\* synthesize_text up to the first piece
SynthesizeText ==
    /\ status = "init"
    /\ segments' = IF text = <<>> THEN <<>>
                   ELSE SegmentTexts(SegmenterOf(settings), text)
    /\ IF segments' = <<>>
       THEN /\ status' = "returned"
            /\ stack' = <<>>
       ELSE /\ status' = "running"
            /\ stack' = <<[pieces |-> segments', i |-> 1, depth |-> 0]>>
    /\ attempts' = 0
    /\ UNCHANGED <<error, audio_chunks, calls, sleeps, files>>
    /\ UNCHANGED Arguments
    /\ UNCHANGED NotTts

\* _split_and_synthesize after "pieces = _split_text(text, settings)"
SynthesizePieces(pieces) ==
    IF pieces = <<>>
    THEN /\ status' = "raised"
         /\ error' = "TtsSizeError: Unable to split text for synthesis."
         /\ UNCHANGED stack
    ELSE /\ stack' = Append(stack, [pieces |-> pieces, i |-> 1,
                                    depth |-> Top.depth + 1])
         /\ UNCHANGED <<status, error>>

SplitAndSynthesize_Depth8 ==
    IF Top.depth >= MaxSplitDepth
    THEN /\ status' = "raised"
         /\ error' = "TtsSizeError: Maximum split depth exceeded."
         /\ UNCHANGED stack
    ELSE SynthesizePieces(SplitText(CurrentText, settings))

\* _split_and_synthesize(CurrentText, depth = Top.depth) up to its first piece
SplitAndSynthesize ==
    IF Top.depth > MaxSplitDepth
    THEN /\ status' = "raised"
         /\ error' = "TtsSizeError: Maximum split depth exceeded."
         /\ UNCHANGED stack
    ELSE SynthesizePieces(SplitText(CurrentText, settings))

\* the current piece returned its chunks: the loops go on or end
PieceDone ==
    /\ stack' = Advance(stack)
    /\ status' = IF Advance(stack) = <<>> THEN "returned" ELSE "running"
    /\ UNCHANGED error

\* _synthesize_with_retry, line 99: an oversized text is split without a call
SplitOversized ==
    /\ status = "running"
    /\ Len(CurrentText) > settings.max_chars
    /\ SplitAndSynthesize
    /\ attempts' = 0
    /\ UNCHANGED <<segments, audio_chunks, calls, sleeps, files>>
    /\ UNCHANGED Arguments
    /\ UNCHANGED NotTts

\* the engine raises TtsSizeError or TtsTransientError at most MaxFaults
\* times in a run
MaxFaults == MaxRetriesBound + 1

Faults ==
    Cardinality({k \in 1..Len(calls) :
                    calls[k].outcome \in {"TtsSizeError", "TtsTransientError"}})

CanCall_NoPreCheck == status = "running"

\* the engine is about to be called with CurrentText
CanCall ==
    /\ status = "running"
    /\ Len(CurrentText) <= settings.max_chars

\* "return [chunk]": engine.synthesize returned a chunk
ReturnChunk(rendered) ==
    /\ calls' = Append(calls, CallRecord("ok", rendered))
    /\ audio_chunks' = Extend(audio_chunks,
                              <<[call |-> Len(calls) + 1, text |-> CurrentText,
                                 path |-> OutputPath]>>)
    /\ PieceDone
    /\ attempts' = 0
    /\ UNCHANGED <<segments, sleeps>>

ExceptInputError_Fatal ==
    /\ calls' = Append(calls, CallRecord("TtsInputError", FALSE))
    /\ status' = "raised"
    /\ error' = "TtsInputError"
    /\ UNCHANGED <<segments, stack, attempts, audio_chunks, sleeps>>

\* except TtsInputError: the piece is skipped
ExceptInputError ==
    /\ calls' = Append(calls, CallRecord("TtsInputError", FALSE))
    /\ audio_chunks' = Extend(audio_chunks, <<>>)
    /\ PieceDone
    /\ attempts' = 0
    /\ UNCHANGED <<segments, sleeps>>

ExceptSizeError_Fatal ==
    /\ calls' = Append(calls, CallRecord("TtsSizeError", FALSE))
    /\ status' = "raised"
    /\ error' = "TtsSizeError"
    /\ UNCHANGED <<segments, stack, attempts, audio_chunks, sleeps>>

ExceptSizeError_SharedAttempts ==
    /\ calls' = Append(calls, CallRecord("TtsSizeError", FALSE))
    /\ SplitAndSynthesize
    /\ UNCHANGED <<attempts, segments, audio_chunks, sleeps>>

\* except TtsSizeError: the piece is split
ExceptSizeError ==
    /\ calls' = Append(calls, CallRecord("TtsSizeError", FALSE))
    /\ SplitAndSynthesize
    /\ attempts' = 0
    /\ UNCHANGED <<segments, audio_chunks, sleeps>>

RetriesExhausted_NoRetry == TRUE

RetriesExhausted_OffByOne == attempts > settings.max_retries

RetriesExhausted_Never == FALSE

\* the retry test of "except TtsTransientError"
RetriesExhausted == attempts >= settings.max_retries

\* except TtsTransientError: retry after a sleep, or give up
ExceptTransientError ==
    /\ calls' = Append(calls, CallRecord("TtsTransientError", FALSE))
    /\ IF RetriesExhausted
       THEN /\ status' = "raised"
            /\ error' = "TtsTransientError"
            /\ UNCHANGED <<attempts, sleeps>>
       ELSE /\ sleeps' = Append(sleeps, [after_call |-> Len(calls) + 1,
                                         attempt |-> attempts,
                                         delay |-> BackoffDelay(attempts, settings.backoff_base,
                                                                settings.backoff_jitter)])
            /\ attempts' = attempts + 1
            /\ UNCHANGED <<status, error>>
    /\ UNCHANGED <<segments, stack, audio_chunks>>

ExceptOther_Swallowed(e) ==
    /\ calls' = Append(calls, CallRecord(e, FALSE))
    /\ PieceDone
    /\ attempts' = 0
    /\ UNCHANGED <<segments, audio_chunks, sleeps>>

\* except TtsError: raise, and the exceptions that no clause catches
ExceptOther(e) ==
    /\ calls' = Append(calls, CallRecord(e, FALSE))
    /\ status' = "raised"
    /\ error' = e
    /\ UNCHANGED <<segments, stack, attempts, audio_chunks, sleeps>>

\* ---- an arbitrary engine (the test doubles of tests/) ----
StubCall ==
    /\ CanCall
    /\ engine.kind = "stub"
    /\ UNCHANGED files
    /\ UNCHANGED Arguments
    /\ UNCHANGED NotTts

EngineOk == StubCall /\ ReturnChunk(TRUE)

EngineInputError == StubCall /\ ExceptInputError

EngineSizeError == StubCall /\ Faults < MaxFaults /\ ExceptSizeError

EngineTransientError == StubCall /\ Faults < MaxFaults /\ ExceptTransientError

EngineFatalError ==
    /\ StubCall
    /\ \E e \in {"TtsModelError", "ValueError"} : ExceptOther(e)

Next ==
    \/ SynthesizeText
    \/ SplitOversized
    \/ EngineOk
    \/ EngineInputError
    \/ EngineSizeError
    \/ EngineTransientError
    \/ EngineFatalError

Spec == Init /\ [][Next]_vars

\* engine.synthesize returns or raises
EngineCall ==
    \/ EngineOk
    \/ EngineInputError
    \/ EngineSizeError
    \/ EngineTransientError
    \/ EngineFatalError

\* the steps that synthesize_text takes without the engine
OwnStep == SynthesizeText \/ SplitOversized

\* OwnStep is enabled
OwnStepDue ==
    \/ status = "init"
    \/ status = "running" /\ Len(CurrentText) > settings.max_chars

\* synthesize_text runs on one thread and every engine call returns or
\* raises: a run that can take a step takes one. The runs are those of the
\* settings without a minimal segment length. The last conjunct is
\* WF_vars(OwnStep) with ENABLED <<OwnStep>>_vars written as OwnStepDue.
InitLive == Init /\ settings.min_chars = 0

SpecLive ==
    /\ InitLive /\ [][Next]_vars
    /\ WF_vars(EngineCall)
    /\ ([]<>(~OwnStepDue) \/ []<><<OwnStep>>_vars)

\* the same runs with other backoff settings
InitBackoff ==
    /\ text \in Texts
    /\ settings \in BackoffSettings
    /\ cache = <<>>
    /\ engine = StubEngine
    /\ InitRun
    /\ files = {}
    /\ run = 1
    /\ history = <<>>
    /\ NoCall
    /\ NoBook
    /\ NoPipeline
    /\ NoStitch

SpecBackoff == InitBackoff /\ [][Next]_vars

\* ---- a cache-aware engine: MlxTtsEngine.synthesize (tts_engine.py) ----

\* letters and digits among the characters of the model
WordChars == {"a", "b"}

\* tts_engine._is_speakable_text: not blank and not only [\W_] characters
IsSpeakableText(t) ==
    /\ Strip(t) # <<>>
    /\ \E i \in 1..Len(t) : t[i] \in WordChars

\* the engines of the runs with a cache: voice "af", with or without a
\* max_input_chars below max_chars
MlxEngines ==
    {[kind |-> "mlx", voice |-> <<"af">>, lang_code |-> <<>>, max_input_chars |-> m] :
        m \in {<<>>, <<2>>}}

\* the texts of the runs with a cache: two different letters, so that the
\* pieces of one text can have different cache keys
CacheAlphabet == {"a", "b", " ", "."}

RECURSIVE TextsOver(_, _)
TextsOver(alphabet, n) ==
    IF n = 0 THEN {<<>>}
    ELSE {Append(t, c) : t \in TextsOver(alphabet, n - 1), c \in alphabet}

CacheTexts == UNION {TextsOver(CacheAlphabet, n) : n \in 0..MaxTextLen}

InitCache ==
    /\ text \in CacheTexts
    /\ settings \in SettingsSet
    /\ cache = <<"cache">>
    /\ engine \in MlxEngines
    /\ InitRun
    /\ files = {}
    /\ run = 1
    /\ history = <<>>
    /\ NoCall
    /\ NoBook
    /\ NoPipeline
    /\ NoStitch

MlxCall ==
    /\ CanCall
    /\ engine.kind = "mlx"
    /\ UNCHANGED Arguments
    /\ UNCHANGED NotTts

\* MlxTtsEngine.synthesize, lines 93-94
MlxTooLong ==
    /\ engine.max_input_chars # <<>>
    /\ Len(CurrentText) > engine.max_input_chars[1]

\* "output_path.exists() and output_path.stat().st_size > 0"
MlxHit == OutputPath[1] \in files

\* lines 90-91
MlxInputError ==
    /\ MlxCall
    /\ ~IsSpeakableText(CurrentText)
    /\ ExceptInputError
    /\ UNCHANGED files

\* lines 93-94
MlxSizeError ==
    /\ MlxCall
    /\ IsSpeakableText(CurrentText)
    /\ MlxTooLong
    /\ ExceptSizeError
    /\ UNCHANGED files

\* lines 119-121: the existing artifact is returned, nothing is rendered
MlxCached ==
    /\ MlxCall
    /\ IsSpeakableText(CurrentText)
    /\ ~MlxTooLong
    /\ MlxHit
    /\ ReturnChunk(FALSE)
    /\ UNCHANGED files

\* lines 123-162: the audio is generated and written to output_path
MlxRendered ==
    /\ MlxCall
    /\ IsSpeakableText(CurrentText)
    /\ ~MlxTooLong
    /\ ~MlxHit
    /\ ReturnChunk(TRUE)
    /\ files' = files \cup {OutputPath[1]}

\* lines 146-150: the runtime failed or returned empty audio
MlxTransientError ==
    /\ MlxCall
    /\ IsSpeakableText(CurrentText)
    /\ ~MlxTooLong
    /\ ~MlxHit
    /\ Faults < MaxFaults
    /\ ExceptTransientError
    /\ UNCHANGED files

\* line 123 / 143: the model cannot be loaded
MlxModelError ==
    /\ MlxCall
    /\ IsSpeakableText(CurrentText)
    /\ ~MlxTooLong
    /\ ~MlxHit
    /\ ExceptOther("TtsModelError")
    /\ UNCHANGED files

Rerun_FreshCache ==
    /\ run = 1
    /\ status \in {"returned", "raised"}
    /\ history' = <<[calls |-> calls, status |-> status, error |-> error,
                     audio_chunks |-> audio_chunks, files |-> files]>>
    /\ run' = 2
    /\ status' = "init"
    /\ error' = ""
    /\ segments' = <<>>
    /\ stack' = <<>>
    /\ attempts' = 0
    /\ audio_chunks' = <<>>
    /\ calls' = <<>>
    /\ sleeps' = <<>>
    /\ files' = {}
    /\ UNCHANGED <<text, settings, cache, engine>>
    /\ UNCHANGED NotTts

\* the caller runs synthesize_text again with the same arguments
Rerun ==
    /\ run = 1
    /\ status \in {"returned", "raised"}
    /\ history' = <<[calls |-> calls, status |-> status, error |-> error,
                     audio_chunks |-> audio_chunks, files |-> files]>>
    /\ run' = 2
    /\ status' = "init"
    /\ error' = ""
    /\ segments' = <<>>
    /\ stack' = <<>>
    /\ attempts' = 0
    /\ audio_chunks' = <<>>
    /\ calls' = <<>>
    /\ sleeps' = <<>>
    /\ UNCHANGED <<text, settings, cache, engine, files>>
    /\ UNCHANGED NotTts

NextCache ==
    \/ SynthesizeText
    \/ SplitOversized
    \/ MlxInputError
    \/ MlxSizeError
    \/ MlxCached
    \/ MlxRendered
    \/ MlxTransientError
    \/ MlxModelError
    \/ Rerun

SpecCache == InitCache /\ [][NextCache]_vars

\* ------------------------------------------------------------------------
\* Calls of BasicTextSegmenter.segment (text_segmenter.py)
\* ------------------------------------------------------------------------

\* no synthesize_text run is in progress
NoRun ==
    /\ text = <<>>
    /\ settings = <<>>
    /\ cache = <<>>
    /\ engine = <<>>
    /\ InitRun
    /\ files = {}
    /\ run = 0
    /\ history = <<>>

\* the characters of the segmented texts: a letter, the two kinds of
\* whitespace, a sentence end, a terminal mark that ends no sentence, and a
\* closing character
SegAlphabet == {"a", " ", "\n", ".", ";", ")"}

SegTexts == UNION {TextsOver(SegAlphabet, n) : n \in 0..MaxTextLen}

\* the BasicTextSegmenter instances that the constructor accepts
Segmenters ==
    {g \in [max_chars : 1..3, min_chars : 0..2, hard_max_chars : {<<>>, <<2>>, <<4>>},
            ensure_terminal_punctuation : BOOLEAN] : ValidSegmenter(g)}

InitSegmenter ==
    /\ NoRun
    /\ NoBook
    /\ NoPipeline
    /\ NoStitch
    /\ call \in [fn : {"segment"}, self : Segmenters, text : SegTexts]
    /\ returned = <<>>

\* segmenter.segment(text) returns its list of Segment records
SegmentCall ==
    /\ call.fn = "segment"
    /\ returned = <<>>
    /\ returned' = <<Segment(call.self, call.text)>>
    /\ UNCHANGED <<call, TtsVars, BookVars, RunVars, StitchVars>>

NextSegmenter == SegmentCall

SpecSegmenter == InitSegmenter /\ [][NextSegmenter]_vars

\* ------------------------------------------------------------------------
\* Calls of chunk_cache_key and AudioCacheLayout.chunk_path (audio_cache.py),
\* two at a time
\* ------------------------------------------------------------------------

\* an optional string: None, "" or a name
OptionalStrings == {<<>>, <<"">>, <<"x">>}

\* the values of each argument of chunk_cache_key; speeds in 1/100000ths:
\* 1.0, 1.00001, 1.00006 and 1.5
FieldValues ==
    [text |-> {<<"a">>, <<"b">>},
     model_id |-> {"m1", "m2"},
     voice |-> OptionalStrings,
     lang_code |-> OptionalStrings,
     ref_audio_id |-> OptionalStrings,
     ref_text |-> OptionalStrings,
     speed |-> {100000, 100001, 100006, 150000},
     sample_rate |-> {24000, 48000},
     channels |-> {1, 2}]

Requests ==
    [text : FieldValues.text, model_id : FieldValues.model_id,
     voice : FieldValues.voice, lang_code : FieldValues.lang_code,
     ref_audio_id : FieldValues.ref_audio_id, ref_text : FieldValues.ref_text,
     speed : FieldValues.speed, sample_rate : FieldValues.sample_rate,
     channels : FieldValues.channels]

\* the requests that differ from request a in at most one argument
Variants(a) ==
    UNION {{[a EXCEPT ![f] = v] : v \in FieldValues[f]} : f \in DOMAIN FieldValues}

KeyCalls ==
    UNION {[fn : {"chunk_cache_key"}, a : {a}, b : Variants(a)] : a \in Requests}

\* some hexadecimal digits
HexChars == {"0", "a", "f"}

\* the first characters of a hexdigest, and shorter strings
HexStrings == UNION {[1..n -> HexChars] : n \in 0..2}

\* keys of the form f"tts_{digest}", and strings without the prefix
KeyStrings == [prefix : {KeyPrefix, <<>>}, digest : HexStrings]

PathCalls == [fn : {"chunk_path"}, root : {"cache"}, a : KeyStrings, b : KeyStrings]

InitKeys ==
    /\ NoRun
    /\ NoBook
    /\ NoPipeline
    /\ NoStitch
    /\ call \in KeyCalls \cup PathCalls
    /\ returned = <<>>

\* chunk_cache_key(**r)
KeyOf(r) ==
    ChunkCacheKey(r.text, r.model_id, r.voice, r.lang_code, r.ref_audio_id,
                  r.ref_text, r.speed, r.sample_rate, r.channels)

\* the two calls of chunk_cache_key return
ChunkCacheKeyCall ==
    /\ call.fn = "chunk_cache_key"
    /\ returned = <<>>
    /\ returned' = <<<<KeyOf(call.a), KeyOf(call.b)>>>>
    /\ UNCHANGED <<call, TtsVars, BookVars, RunVars, StitchVars>>

\* the two calls of layout.chunk_path(key) return
ChunkPathCall ==
    /\ call.fn = "chunk_path"
    /\ returned = <<>>
    /\ returned' = <<<<ChunkPath(call.root, call.a, "wav"),
                       ChunkPath(call.root, call.b, "wav")>>>>
    /\ UNCHANGED <<call, TtsVars, BookVars, RunVars, StitchVars>>

NextKeys ==
    \/ ChunkCacheKeyCall
    \/ ChunkPathCall

SpecKeys == InitKeys /\ [][NextKeys]_vars

\* ------------------------------------------------------------------------
\* The processing of the chapters of one book (pipeline._process_book) as a
\* state machine.  A step is the resolution of the worker count, one
\* _process_chapter call of the sequential loop, the start or the end of a
\* task of the executor, or one round of the "while pending" loop.
\* ------------------------------------------------------------------------

\* the largest number of chapters of a book
MaxChapters == 2

MinOf(a, b) == IF a <= b THEN a ELSE b

\* the automatic worker count: min(max(1, cpu_count - 1), cap, total_chapters)
AutoWorkers(cpu, cap, total_chapters) ==
    MinOf(MinOf(MaxOf(1, cpu - 1), cap), total_chapters)

ResolveChapterWorkers_NoEngineCheck(cfg, total_chapters, cpu) ==
    IF total_chapters <= 1 THEN 1
    ELSE IF cfg.chapter_workers # <<>>
    THEN MinOf(MaxOf(1, cfg.chapter_workers[1]), total_chapters)
    ELSE IF cfg.engine = "mlx" /\ cfg.chapter_parallelism = "thread"
    THEN IF ~cfg.unsafe_mlx_parallelism THEN 1
         ELSE AutoWorkers(cpu, 2, total_chapters)
    ELSE IF cfg.engine = "mlx" /\ cfg.chapter_parallelism = "process"
    THEN AutoWorkers(cpu, 3, total_chapters)
    ELSE AutoWorkers(cpu, 4, total_chapters)

\* pipeline._resolve_chapter_workers; cpu is "os.cpu_count() or 1"
ResolveChapterWorkers(cfg, total_chapters, cpu) ==
    IF total_chapters <= 1 THEN 1
    ELSE IF cfg.chapter_workers # <<>>
    THEN IF /\ cfg.engine = "mlx"
            /\ cfg.chapter_parallelism = "thread"
            /\ MaxOf(1, cfg.chapter_workers[1]) > 1
            /\ ~cfg.unsafe_mlx_parallelism
         THEN 1
         ELSE MinOf(MaxOf(1, cfg.chapter_workers[1]), total_chapters)
    ELSE IF cfg.engine = "mlx" /\ cfg.chapter_parallelism = "thread"
    THEN IF ~cfg.unsafe_mlx_parallelism THEN 1
         ELSE AutoWorkers(cpu, 2, total_chapters)
    ELSE IF cfg.engine = "mlx" /\ cfg.chapter_parallelism = "process"
    THEN AutoWorkers(cpu, 3, total_chapters)
    ELSE AutoWorkers(cpu, 4, total_chapters)

\* "os.cpu_count() or 1"
CpuCountOr1 == IF cpu_count = <<>> THEN 1 ELSE MaxOf(1, cpu_count[1])

\* the configurations: the engine is "mlx" (_build_engine accepts no other),
\* chapter_workers is unset, 0, 1 or 3
Configs ==
    [engine : {"mlx"}, chapter_workers : {<<>>, <<0>>, <<1>>, <<3>>},
     chapter_parallelism : {"thread", "process"}, unsafe_mlx_parallelism : BOOLEAN]

\* the chapters of a book as EbooklibEpubReader numbers them: 0, 1, ...
Chapters(n) == [k \in 1..n |-> [index |-> k - 1]]

\* what can happen in _process_chapter: the chapter is synthesized and
\* stitched, its text is empty after cleaning, synthesize_text raises a
\* TtsError, the audio processor fails, or an exception that is no
\* TtsError leaves synthesize_text
ChapterEvents == {"ok", "cleaned_empty", "TtsError", "stitch_failed", "Exception"}

\* cache.chapter_path(book_slug, chapter.index, "stitched")
ChapterPath(index) == [chapter |-> index, stage |-> "stitched"]

\* the ChapterResult that _process_chapter returns after an event that it
\* handles
ChapterResultOf(index, event) ==
    IF event = "ok"
    THEN [chapter_index |-> index, status |-> "ok", output_paths |-> <<ChapterPath(index)>>]
    ELSE IF event = "cleaned_empty"
    THEN [chapter_index |-> index, status |-> "empty", output_paths |-> <<>>]
    ELSE [chapter_index |-> index, status |-> "failed", output_paths |-> <<>>]

\* the exception leaves _process_chapter: only TtsError is caught around
\* synthesize_text
Propagates(event) == event = "Exception"

\* "except Exception" around future.result() in _process_book
FutureResult(index, event) ==
    IF Propagates(event)
    THEN [chapter_index |-> index, status |-> "failed", output_paths |-> <<>>]
    ELSE ChapterResultOf(index, event)

\* list.sort(key=chapter_index) is stable: r goes behind the results whose
\* index is not larger
RECURSIVE InsertByIndex(_, _)
InsertByIndex(sorted, r) ==
    IF sorted = <<>> THEN <<r>>
    ELSE IF sorted[Len(sorted)].chapter_index <= r.chapter_index THEN Append(sorted, r)
    ELSE Append(InsertByIndex(SubSeq(sorted, 1, Len(sorted) - 1), r), sorted[Len(sorted)])

SortByIndex_Unsorted(results) == results

\* chapter_results.sort(key=lambda result: result.chapter_index)
RECURSIVE SortByIndex(_)
SortByIndex(results) ==
    IF results = <<>> THEN <<>>
    ELSE InsertByIndex(SortByIndex(SubSeq(results, 1, Len(results) - 1)),
                       results[Len(results)])

\* by_index of _collect_chapter_audio: the last result with status "ok" and
\* an output path for a chapter index, <<>> if there is none
RECURSIVE ByIndex(_, _)
ByIndex(results, index) ==
    IF results = <<>> THEN <<>>
    ELSE LET r == results[Len(results)]
         IN IF r.chapter_index = index /\ r.status = "ok" /\ r.output_paths # <<>>
            THEN <<r.output_paths[1]>>
            ELSE ByIndex(SubSeq(results, 1, Len(results) - 1), index)

\* the ChapterAudio entry of a chapter, if it has audio
AudioOf(results, chapter) ==
    IF ByIndex(results, chapter.index) = <<>> THEN <<>>
    ELSE <<[index |-> chapter.index, path |-> ByIndex(results, chapter.index)[1]]>>

\* pipeline._collect_chapter_audio: "for chapter in book.chapters"
RECURSIVE CollectChapterAudio(_, _)
CollectChapterAudio(chapters, results) ==
    IF chapters = <<>> THEN <<>>
    ELSE CollectChapterAudio(SubSeq(chapters, 1, Len(chapters) - 1), results)
             \o AudioOf(results, chapters[Len(chapters)])

InitBook ==
    /\ NoRun
    /\ NoCall
    /\ NoPipeline
    /\ NoStitch
    /\ config \in Configs
    /\ cpu_count \in {<<>>, <<4>>}
    /\ book \in {Chapters(n) : n \in 0..MaxChapters}
    /\ workers = <<>>
    /\ pc = "start"
    /\ futures = [k \in 1..Len(book) |-> "none"]
    /\ events = [k \in 1..Len(book) |-> ""]
    /\ chapter_results = <<>>
    /\ processed = <<>>
    /\ completed = <<>>
    /\ chapter_audio = <<>>
    /\ thread_state = <<>>
    /\ engine_use = [k \in 1..Len(book) |-> <<>>]

\* the book-processing variables that only the first step sets
BookArguments == <<config, cpu_count, book>>

\* _process_book up to the sequential loop or the submission of all the
\* chapters to the executor
StartBook ==
    /\ pc = "start"
    /\ workers' = <<ResolveChapterWorkers(config, Len(book), CpuCountOr1)>>
    /\ IF workers'[1] <= 1
       THEN /\ pc' = IF book = <<>> THEN "returned" ELSE "loop"
            /\ UNCHANGED <<futures, thread_state>>
       ELSE /\ pc' = "pool"
            /\ futures' = [k \in 1..Len(book) |-> "submitted"]
            /\ thread_state' = [w \in 1..workers'[1] |-> <<>>]
    /\ UNCHANGED <<events, chapter_results, processed, completed, chapter_audio, engine_use>>
    /\ UNCHANGED <<BookArguments, TtsVars, PureVars, RunVars, StitchVars>>

\* the engine that run_pipeline built and passed to _process_book, and the
\* thread of run_pipeline
MainEngine == [builder |-> 0, n |-> 0]

MainThread == 0

\* one round of "for chapter in book.chapters" with workers <= 1
ProcessChapterSequential(event) ==
    /\ pc = "loop"
    /\ LET k == Len(chapter_results) + 1
       IN /\ processed' = Append(processed, book[k].index)
          /\ engine_use' = [engine_use EXCEPT ![k] = <<[worker |-> MainThread, engine |-> MainEngine]>>]
          /\ events' = [events EXCEPT ![k] = event]
          /\ IF Propagates(event)
             THEN /\ pc' = "raised"
                  /\ UNCHANGED chapter_results
             ELSE /\ chapter_results' =
                        Append(chapter_results, ChapterResultOf(book[k].index, event))
                  /\ pc' = IF k = Len(book) THEN "returned" ELSE "loop"
    /\ UNCHANGED <<workers, futures, completed, chapter_audio, thread_state>>
    /\ UNCHANGED <<BookArguments, TtsVars, PureVars, RunVars, StitchVars>>

\* the chapter positions whose future is in state f
FuturesIn(f) == {k \in 1..Len(book) : futures[k] = f}

\* the worker threads or processes of the executor
PoolWorkers == IF pc = "pool" THEN 1..workers[1] ELSE {}

\* the workers that are running a task
BusyWorkers == {engine_use[k][1].worker : k \in FuturesIn("running")}

\* the engines passed to _process_chapter so far
EnginesUsed == {engine_use[k][1].engine : k \in {j \in 1..Len(engine_use) : engine_use[j] # <<>>}}

\* _build_engine(config) called by worker w: a new engine instance
BuildEngine(w) == [builder |-> w, n |-> Cardinality(EnginesUsed) + 1]

ThreadLocal_Shared(w) == 1

\* the attributes of a threading.local() are those of the calling thread
ThreadLocal(w) == w

\* worker_engine of _worker, engine of _process_chapter_in_subprocess
WorkerEngine(w) ==
    IF config.chapter_parallelism = "process" THEN BuildEngine(w)
    ELSE IF thread_state[ThreadLocal(w)] = <<>> THEN BuildEngine(w)
    ELSE thread_state[ThreadLocal(w)][1]

\* an idle worker w of the executor starts the task submitted first among
\* the waiting ones: _worker or _process_chapter_in_subprocess up to the call
\* of _process_chapter
WorkerStart(w) ==
    /\ pc = "pool"
    /\ FuturesIn("submitted") # {}
    /\ w \in PoolWorkers \ BusyWorkers
    /\ LET k == CHOOSE j \in FuturesIn("submitted") :
                    \A i \in FuturesIn("submitted") : j <= i
       IN /\ futures' = [futures EXCEPT ![k] = "running"]
          /\ processed' = Append(processed, book[k].index)
          /\ engine_use' = [engine_use EXCEPT ![k] = <<[worker |-> w, engine |-> WorkerEngine(w)]>>]
    /\ thread_state' = IF config.chapter_parallelism = "process" THEN thread_state
                       ELSE [thread_state EXCEPT ![ThreadLocal(w)] = <<WorkerEngine(w)>>]
    /\ UNCHANGED <<workers, pc, events, chapter_results, completed, chapter_audio>>
    /\ UNCHANGED <<BookArguments, TtsVars, PureVars, RunVars, StitchVars>>

\* a task (_worker or _process_chapter_in_subprocess) ends
WorkerFinish(k, event) ==
    /\ pc = "pool"
    /\ futures[k] = "running"
    /\ futures' = [futures EXCEPT ![k] = "done"]
    /\ events' = [events EXCEPT ![k] = event]
    /\ UNCHANGED <<workers, pc, chapter_results, processed, completed, chapter_audio>>
    /\ UNCHANGED <<thread_state, engine_use>>
    /\ UNCHANGED <<BookArguments, TtsVars, PureVars, RunVars, StitchVars>>

\* the orders in which "for future in done" can visit a set of futures
Orders(done) ==
    {o \in [1..Cardinality(done) -> done] :
        \A i, j \in 1..Cardinality(done) : (o[i] = o[j]) => (i = j)}

\* the results that one round appends for the futures visited in order o
Collected(o) == [i \in 1..Len(o) |-> FutureResult(book[o[i]].index, events[o[i]])]

\* one round of "while pending" in which wait() returns finished futures;
\* after the last round the results are sorted and returned
CollectDone(o) ==
    /\ pc = "pool"
    /\ FuturesIn("done") # {}
    /\ o \in Orders(FuturesIn("done"))
    /\ futures' = [k \in 1..Len(book) |->
                      IF futures[k] = "done" THEN "collected" ELSE futures[k]]
    /\ IF \A k \in 1..Len(book) : futures'[k] = "collected"
       THEN /\ chapter_results' = SortByIndex(chapter_results \o Collected(o))
            /\ pc' = "returned"
       ELSE /\ chapter_results' = chapter_results \o Collected(o)
            /\ UNCHANGED pc
    /\ completed' = completed \o [i \in 1..Len(o) |-> book[o[i]].index]
    /\ UNCHANGED <<workers, events, processed, chapter_audio, thread_state, engine_use>>
    /\ UNCHANGED <<BookArguments, TtsVars, PureVars, RunVars, StitchVars>>

\* run_pipeline hands the results of _process_book to _collect_chapter_audio
CollectAudio ==
    /\ pc = "returned"
    /\ chapter_audio' = CollectChapterAudio(book, chapter_results)
    /\ pc' = "collected"
    /\ UNCHANGED <<workers, futures, events, chapter_results, processed, completed>>
    /\ UNCHANGED <<thread_state, engine_use>>
    /\ UNCHANGED <<BookArguments, TtsVars, PureVars, RunVars, StitchVars>>

NextBook ==
    \/ StartBook
    \/ \E event \in ChapterEvents : ProcessChapterSequential(event)
    \/ \E w \in PoolWorkers : WorkerStart(w)
    \/ \E k \in 1..Len(book) : \E event \in ChapterEvents : WorkerFinish(k, event)
    \/ \E o \in Orders(FuturesIn("done")) : CollectDone(o)
    \/ CollectAudio

SpecBook == InitBook /\ [][NextBook]_vars

\* ------------------------------------------------------------------------
\* run_pipeline (pipeline.py): the loop over the expanded input sources.
\* _process_book is one step of the loop here: it returns chapter results
\* (with or without audio, with or without a failed chapter) or it raises.

MaxSources == 2

\* file stems and book titles; slugify lowercases them
Names == {"a", "A", "B"}

Slugify(value) == CASE value = "A" -> "a" [] value = "B" -> "b" [] OTHER -> value

Slugs == {Slugify(n) : n \in Names}

\* a path of the input list: a file that is not there, or an EPUB with the
\* title of its metadata (<<>>: no title)
MissingSources == [stem : {"a", "B"}, exists : {FALSE}, title : {<<>>}]

EpubSources == [stem : {"a", "B"}, exists : {TRUE}, title : {<<>>, <<"A">>}]

SourceLists == UNION {[1..n -> MissingSources \cup EpubSources] : n \in 0..MaxSources}

\* book_slug before the EPUB is read
StemSlug(source) == Slugify(source.stem)

\* book_slug once the EPUB is read: slugify(book.metadata.title or book_slug)
TitleSlug(source) == IF source.title = <<>> THEN Slugify(StemSlug(source)) ELSE Slugify(source.title[1])

\* _resolve_output_path: <out>/<slug>/<slug>.m4b, named by its slug
BookOutputPath_Shared(book_slug) == "a"

BookOutputPath(book_slug) == book_slug

NoArtifacts == [source_path |-> <<>>, output_m4b |-> <<>>, last_error |-> <<>>, error_log |-> <<>>, chapter_dir |-> <<>>]

\* the state a finished earlier run left behind for a book
PriorState(book_id) == [book_id |-> book_id, steps |-> [chapters |-> TRUE, packaged |-> TRUE], artifacts |-> [NoArtifacts EXCEPT !.source_path = <<[stem |-> "prior", exists |-> TRUE, title |-> <<>>]>>, !.output_m4b = <<BookOutputPath(book_id)>>, !.last_error = <<"">>, !.chapter_dir = <<book_id>>]]

\* JsonStateStore.save: the file of the book holds the state and the time
Save(store, state, now) == [store EXCEPT ![state.book_id] = <<[steps |-> state.steps, artifacts |-> state.artifacts, updated_at |-> now]>>]

\* JsonStateStore.load: the time is not read back
Load(store, book_id) == IF store[book_id] = <<>> THEN <<>> ELSE <<[book_id |-> book_id, steps |-> store[book_id][1].steps, artifacts |-> store[book_id][1].artifacts]>>

InitialState(book_id, source) == [book_id |-> book_id, steps |-> [chapters |-> FALSE, packaged |-> FALSE], artifacts |-> [NoArtifacts EXCEPT !.source_path = <<source>>]]

SetDefaultSource(state, source) == IF state.artifacts.source_path = <<>> THEN [state EXCEPT !.artifacts.source_path = <<source>>] ELSE state

\* _load_or_init_state: the state in memory
LoadOrInitState(store, book_id, source) == IF Load(store, book_id) = <<>> THEN InitialState(book_id, source) ELSE SetDefaultSource(Load(store, book_id)[1], source)

\* _load_or_init_state: the store it leaves (a new state is saved at once)
StoreAfterLoad(store, book_id, source, now) == IF Load(store, book_id) = <<>> THEN Save(store, InitialState(book_id, source), now) ELSE store

\* lines 239-241: a state marked packaged whose output is missing is reset
Reprocessed(state) == [state EXCEPT !.steps.packaged = FALSE]

StateToProcess(store, book_id, source) == Reprocessed(LoadOrInitState(store, book_id, source))

StoreToProcess(store, book_id, source, now) == IF LoadOrInitState(store, book_id, source).steps.packaged THEN Save(store, StateToProcess(store, book_id, source), now) ELSE StoreAfterLoad(store, book_id, source, now)

\* lines 288-293
WithChapters(state, chapters_ok) == [state EXCEPT !.steps.chapters = chapters_ok, !.artifacts.chapter_dir = <<state.book_id>>]

\* lines 276 and 325
WithError(state) == [state EXCEPT !.artifacts.last_error = <<"error">>, !.artifacts.error_log = <<state.book_id>>]

\* lines 333-337
WithPackaged(state) == [state EXCEPT !.steps.packaged = TRUE, !.artifacts.output_m4b = <<BookOutputPath(state.book_id)>>, !.artifacts.last_error = <<"">>]

BookResult(source, book_slug, book_status, output_path) == [source |-> source, book_slug |-> book_slug, status |-> book_status, output_path |-> output_path]

\* the position of the loop: the source the next iteration takes
LoopPosition == Len(run_results) + 1

InLoop == run_pc = "loop" /\ LoopPosition <= Len(sources)

\* the end of every iteration: one result appended
Appended(result, outcome) ==
    /\ run_results' = Append(run_results, result)
    /\ faults' = Append(faults, outcome)
    /\ UNCHANGED <<sources, run_pc>>

\* the state after a run of the books of an earlier run
InitPipeline ==
    /\ NoRun
    /\ NoCall
    /\ NoBook
    /\ NoStitch
    /\ sources \in SourceLists
    /\ run_results = <<>>
    /\ state_store \in {[s \in Slugs |-> IF s \in done THEN <<[steps |-> PriorState(s).steps, artifacts |-> PriorState(s).artifacts, updated_at |-> 0]>> ELSE <<>>] : done \in SUBSET Slugs}
    /\ out_files \in [Slugs -> {<<>>, <<0>>}]
    /\ faults = <<>>
    /\ run_pc = "loop"

\* lines 176-190
BookMissing ==
    /\ InLoop
    /\ ~sources[LoopPosition].exists
    /\ Appended(BookResult(sources[LoopPosition], StemSlug(sources[LoopPosition]), "missing", <<>>), "missing")
    /\ UNCHANGED <<state_store, out_files>>
    /\ UNCHANGED <<TtsVars, PureVars, BookVars, StitchVars>>

\* lines 192-209: reader.read raises
BookReadFailed ==
    /\ InLoop
    /\ sources[LoopPosition].exists
    /\ Appended(BookResult(sources[LoopPosition], StemSlug(sources[LoopPosition]), "failed", <<>>), "read_failed")
    /\ UNCHANGED <<state_store, out_files>>
    /\ UNCHANGED <<TtsVars, PureVars, BookVars, StitchVars>>

\* the book is read and its state says packaged
Packaged(source) == LoadOrInitState(state_store, TitleSlug(source), source).steps.packaged

OutputExists(source) == out_files[BookOutputPath(TitleSlug(source))] # <<>>

\* lines 218-238
BookSkipped ==
    /\ InLoop
    /\ sources[LoopPosition].exists
    /\ Packaged(sources[LoopPosition]) /\ OutputExists(sources[LoopPosition])
    /\ state_store' = Save(state_store, [LoadOrInitState(state_store, TitleSlug(sources[LoopPosition]), sources[LoopPosition]) EXCEPT !.artifacts.output_m4b = <<BookOutputPath(TitleSlug(sources[LoopPosition]))>>], LoopPosition)
    /\ Appended(BookResult(sources[LoopPosition], TitleSlug(sources[LoopPosition]), "skipped", <<BookOutputPath(TitleSlug(sources[LoopPosition]))>>), "skipped")
    /\ UNCHANGED out_files
    /\ UNCHANGED <<TtsVars, PureVars, BookVars, StitchVars>>

ToProcess_NoSkip == InLoop /\ sources[LoopPosition].exists

\* the book is read and is not skipped
ToProcess == InLoop /\ sources[LoopPosition].exists /\ ~(Packaged(sources[LoopPosition]) /\ OutputExists(sources[LoopPosition]))

\* lines 247-281: _process_book raises
BookPipelineFailed ==
    /\ ToProcess
    /\ state_store' = Save(StoreToProcess(state_store, TitleSlug(sources[LoopPosition]), sources[LoopPosition], LoopPosition), WithError(StateToProcess(state_store, TitleSlug(sources[LoopPosition]), sources[LoopPosition])), LoopPosition)
    /\ Appended(BookResult(sources[LoopPosition], TitleSlug(sources[LoopPosition]), "failed", <<>>), "pipeline_failed")
    /\ UNCHANGED out_files
    /\ UNCHANGED <<TtsVars, PureVars, BookVars, StitchVars>>

\* lines 283-301: no chapter has audio
BookNoAudio(chapters_ok) ==
    /\ ToProcess
    /\ state_store' = Save(StoreToProcess(state_store, TitleSlug(sources[LoopPosition]), sources[LoopPosition], LoopPosition), WithChapters(StateToProcess(state_store, TitleSlug(sources[LoopPosition]), sources[LoopPosition]), chapters_ok), LoopPosition)
    /\ Appended(BookResult(sources[LoopPosition], TitleSlug(sources[LoopPosition]), "ok", <<>>), "no_audio")
    /\ UNCHANGED out_files
    /\ UNCHANGED <<TtsVars, PureVars, BookVars, StitchVars>>

\* what a failing packager leaves at its output path: ffmpeg -y may have
\* started to write it
AfterFailedPackage(outputs, out_path, position) == {outputs, [outputs EXCEPT ![out_path] = <<0 - position>>]}

\* lines 303-330: _validate_output_path or packager.package raises
BookPackagingFailed(chapters_ok) ==
    /\ ToProcess
    /\ out_files' \in AfterFailedPackage(out_files, BookOutputPath(TitleSlug(sources[LoopPosition])), LoopPosition)
    /\ state_store' = Save(StoreToProcess(state_store, TitleSlug(sources[LoopPosition]), sources[LoopPosition], LoopPosition), WithError(WithChapters(StateToProcess(state_store, TitleSlug(sources[LoopPosition]), sources[LoopPosition]), chapters_ok)), LoopPosition)
    /\ Appended(BookResult(sources[LoopPosition], TitleSlug(sources[LoopPosition]), "failed", <<>>), "packaging_failed")
    /\ UNCHANGED <<TtsVars, PureVars, BookVars, StitchVars>>

\* lines 303-345: the book is packaged
BookPackaged(chapters_ok) ==
    /\ ToProcess
    /\ out_files' = [out_files EXCEPT ![BookOutputPath(TitleSlug(sources[LoopPosition]))] = <<LoopPosition>>]
    /\ state_store' = Save(StoreToProcess(state_store, TitleSlug(sources[LoopPosition]), sources[LoopPosition], LoopPosition), WithPackaged(WithChapters(StateToProcess(state_store, TitleSlug(sources[LoopPosition]), sources[LoopPosition]), chapters_ok)), LoopPosition)
    /\ Appended(BookResult(sources[LoopPosition], TitleSlug(sources[LoopPosition]), "ok", <<BookOutputPath(TitleSlug(sources[LoopPosition]))>>), "packaged")
    /\ UNCHANGED <<TtsVars, PureVars, BookVars, StitchVars>>

\* line 347
ReturnResults ==
    /\ run_pc = "loop"
    /\ LoopPosition > Len(sources)
    /\ run_pc' = "returned"
    /\ UNCHANGED <<sources, run_results, state_store, out_files, faults>>
    /\ UNCHANGED <<TtsVars, PureVars, BookVars, StitchVars>>

NextPipeline ==
    \/ BookMissing
    \/ BookReadFailed
    \/ BookSkipped
    \/ BookPipelineFailed
    \/ \E chapters_ok \in BOOLEAN : BookNoAudio(chapters_ok)
    \/ \E chapters_ok \in BOOLEAN : BookPackagingFailed(chapters_ok)
    \/ \E chapters_ok \in BOOLEAN : BookPackaged(chapters_ok)
    \/ ReturnResults

SpecPipeline == InitPipeline /\ [][NextPipeline]_vars

\* ------------------------------------------------------------------------
\* One chapter after synthesis, over several runs: _process_chapter from
\* the check of the stitched path to its return, with the stitching of
\* FfmpegAudioProcessor

MaxChunks == 3

MaxRuns == 2

\* the chunk files that synthesize_text returns for the chapter: each has the
\* channels, sample rate and sample width of the processor or not
ChunkLists ==
    UNION {[1..n -> [matches : BOOLEAN]] : n \in 1..MaxChunks}

\* the frames of the chunks at the positions a..b, in order
FramesOf(a, b) == [k \in 1..(b - a + 1) |-> a + k - 1]

\* "path.exists() and path.stat().st_size > 0"
ExistsNonEmpty(file) ==
    file # <<>> /\ (file[1].header \/ file[1].frames # <<>>)

\* the chunk at which _append_chunk raises, 0 when none does
FirstMismatch(chunk_list) ==
    IF \A k \in 1..Len(chunk_list) : chunk_list[k].matches THEN 0
    ELSE CHOOSE k \in 1..Len(chunk_list) :
            /\ ~chunk_list[k].matches
            /\ \A j \in 1..(k - 1) : chunk_list[j].matches

\* wave.open(out_path, "wb") as output: the frames appended before the
\* exception stay in the file and closing it writes the header
WaveWrite(chunk_list) ==
    IF FirstMismatch(chunk_list) = 0
    THEN [raised |-> FALSE, file |-> <<[header |-> TRUE, frames |-> FramesOf(1, Len(chunk_list))]>>]
    ELSE [raised |-> TRUE,
          file |-> <<[header |-> TRUE, frames |-> FramesOf(1, FirstMismatch(chunk_list) - 1)]>>]

\* FfmpegAudioProcessor.stitch(chunks, out_path), file the one at out_path
Stitch(chunk_list, file) ==
    IF ExistsNonEmpty(file) THEN [raised |-> FALSE, file |-> file]
    ELSE WaveWrite(chunk_list)

\* ChapterResult, with the audio that the file at its output path holds
ChapterResult(chapter_status, output) ==
    [status |-> chapter_status,
     audio |-> IF output = <<>> THEN <<>> ELSE output[1].frames]

RunsDone == Len(chapter_runs)

InitStitch ==
    /\ NoRun
    /\ NoCall
    /\ NoBook
    /\ NoPipeline
    /\ chunk_files \in ChunkLists
    /\ normalize_audio \in BOOLEAN
    /\ stitched_wav = <<>>
    /\ normalized_wav = <<>>
    /\ chapter_runs = <<>>

\* lines 662-667: the file of an earlier run is taken as the chapter
ChapterFromFile ==
    /\ RunsDone < MaxRuns
    /\ IF normalize_audio THEN ExistsNonEmpty(normalized_wav) ELSE ExistsNonEmpty(stitched_wav)
    /\ chapter_runs' = Append(chapter_runs,
            ChapterResult("ok", IF normalize_audio THEN normalized_wav ELSE stitched_wav))
    /\ UNCHANGED <<chunk_files, normalize_audio, stitched_wav, normalized_wav>>
    /\ UNCHANGED <<TtsVars, PureVars, BookVars, RunVars>>

ToStitch ==
    /\ RunsDone < MaxRuns
    /\ ~(IF normalize_audio THEN ExistsNonEmpty(normalized_wav) ELSE ExistsNonEmpty(stitched_wav))

\* lines 684-706: synthesize_text raises a TtsError
ChapterTtsFailed ==
    /\ ToStitch
    /\ chapter_runs' = Append(chapter_runs, ChapterResult("failed", <<>>))
    /\ UNCHANGED <<chunk_files, normalize_audio, stitched_wav, normalized_wav>>
    /\ UNCHANGED <<TtsVars, PureVars, BookVars, RunVars>>

\* lines 738-751: stitch raises
ChapterStitchFailed ==
    /\ ToStitch
    /\ Stitch(chunk_files, stitched_wav).raised
    /\ stitched_wav' = Stitch(chunk_files, stitched_wav).file
    /\ chapter_runs' = Append(chapter_runs, ChapterResult("failed", <<>>))
    /\ UNCHANGED <<chunk_files, normalize_audio, normalized_wav>>
    /\ UNCHANGED <<TtsVars, PureVars, BookVars, RunVars>>

\* lines 738-754: stitch returns and normalization is off
ChapterStitched ==
    /\ ToStitch
    /\ ~normalize_audio
    /\ ~Stitch(chunk_files, stitched_wav).raised
    /\ stitched_wav' = Stitch(chunk_files, stitched_wav).file
    /\ chapter_runs' = Append(chapter_runs, ChapterResult("ok", stitched_wav'))
    /\ UNCHANGED <<chunk_files, normalize_audio, normalized_wav>>
    /\ UNCHANGED <<TtsVars, PureVars, BookVars, RunVars>>

\* lines 738-770: stitch returns and normalize writes the normalized file
\* from the stitched one (normalized TRUE) or raises before writing it
ChapterNormalized(normalized) ==
    /\ ToStitch
    /\ normalize_audio
    /\ ~Stitch(chunk_files, stitched_wav).raised
    /\ stitched_wav' = Stitch(chunk_files, stitched_wav).file
    /\ normalized_wav' = IF normalized THEN stitched_wav' ELSE normalized_wav
    /\ chapter_runs' = Append(chapter_runs,
            IF normalized THEN ChapterResult("ok", normalized_wav')
            ELSE ChapterResult("failed", <<>>))
    /\ UNCHANGED <<chunk_files, normalize_audio>>
    /\ UNCHANGED <<TtsVars, PureVars, BookVars, RunVars>>

NextStitch ==
    \/ ChapterFromFile
    \/ ChapterTtsFailed
    \/ ChapterStitchFailed
    \/ ChapterStitched
    \/ \E normalized \in BOOLEAN : ChapterNormalized(normalized)

SpecStitch == InitStitch /\ [][NextStitch]_vars

\* ------------------------------------------------------------------------
\* Vocabulary of the properties
\* ------------------------------------------------------------------------
Terminated == status \in {"returned", "raised"}

\* the text is one segment that fits max_chars
SingleSegment ==
    /\ Len(segments) = 1
    /\ Len(segments[1]) <= settings.max_chars

\* the first n engine calls exist and all ended in outcome o
FirstCallsAre(n, o) ==
    /\ Len(calls) >= n
    /\ \A k \in 1..n : calls[k].outcome = o

\* p comes before q in the left-to-right order of the tree of pieces and
\* is not an ancestor of q
Before(p, q) ==
    \E k \in 1..Len(p) :
        /\ k <= Len(q)
        /\ p[k] < q[k]
        /\ \A j \in 1..(k - 1) : p[j] = q[j]

IsSizeError(e) ==
    e \in {"TtsSizeError: Maximum split depth exceeded.",
           "TtsSizeError: Unable to split text for synthesis."}

\* C1: a single segment whose first k < max_retries calls raise
\* TransientError and whose next call succeeds yields exactly one chunk
\* after exactly k+1 engine calls; until then the run has not failed.
C1_TransientRetrySucceeds ==
    SingleSegment =>
        \A k \in 0..(settings.max_retries - 1) :
            /\ (Len(calls) <= k /\ FirstCallsAre(Len(calls), "TtsTransientError"))
                   => status # "raised"
            /\ (FirstCallsAre(k, "TtsTransientError") /\ Len(calls) > k
                    /\ calls[k + 1].outcome = "ok")
                   => /\ status = "returned"
                      /\ Len(audio_chunks) = 1
                      /\ Len(calls) = k + 1

C1_Witness ==
    /\ SingleSegment
    /\ status = "returned"
    /\ Len(calls) = 2
    /\ calls[1].outcome = "TtsTransientError"
    /\ calls[2].outcome = "ok"
    /\ Len(audio_chunks) = 1

\* C2 as stated: after TransientError on the first k = max_retries calls of
\* a single segment the error has propagated and no chunk is returned.
C2_Original ==
    (SingleSegment /\ Terminated
        /\ FirstCallsAre(settings.max_retries, "TtsTransientError"))
        => /\ status = "raised"
           /\ error = "TtsTransientError"
           /\ audio_chunks = <<>>

\* C2 amended: TransientError on the first max_retries + 1 calls of a
\* single segment propagates out of synthesize_text with no chunk, and the
\* engine is not called again.
C2_TransientExhausted ==
    (SingleSegment /\ FirstCallsAre(settings.max_retries + 1, "TtsTransientError"))
        => /\ status = "raised"
           /\ error = "TtsTransientError"
           /\ audio_chunks = <<>>
           /\ Len(calls) = settings.max_retries + 1

C2_Witness ==
    /\ SingleSegment
    /\ FirstCallsAre(settings.max_retries + 1, "TtsTransientError")
    /\ status = "raised"

\* indexes of the engine calls that returned a chunk
OkCalls == {k \in 1..Len(calls) : calls[k].outcome = "ok"}

\* C3: on a normal return the result list holds exactly one chunk per
\* successful engine call, in call order, and that order is the
\* left-to-right order of the segments and of the pieces of every split.
C3_ChunksInOrder ==
    status = "returned" =>
        /\ {audio_chunks[j].call : j \in 1..Len(audio_chunks)} = OkCalls
        /\ Len(audio_chunks) = Cardinality(OkCalls)
        /\ \A i, j \in 1..Len(audio_chunks) :
              i < j => /\ audio_chunks[i].call < audio_chunks[j].call
                       /\ Before(calls[audio_chunks[i].call].position,
                                 calls[audio_chunks[j].call].position)

\* two chunks, one of them from a piece of a split, after a retry
C3_Witness ==
    /\ status = "returned"
    /\ Len(audio_chunks) >= 2
    /\ \E j \in 1..Len(audio_chunks) : Len(calls[audio_chunks[j].call].position) >= 2
    /\ \E k \in 1..Len(calls) : calls[k].outcome = "TtsTransientError"

\* C4: the engine is never called with a text longer than max_chars.
C4_NoOversizedCall ==
    \A k \in 1..Len(calls) : Len(calls[k].text) <= settings.max_chars

\* a segment longer than max_chars was split and its pieces were synthesized
C4_Witness ==
    /\ \E j \in 1..Len(segments) : Len(segments[j]) > settings.max_chars
    /\ \E k \in 1..Len(calls) :
          /\ Len(calls[k].position) >= 2
          /\ Len(segments[calls[k].position[1]]) > settings.max_chars

\* the non-whitespace characters of t
NonWhitespace(t) == SelectSeq(t, LAMBDA c : c \notin Whitespace)

NotDot(c) == c # "."

\* p is a subsequence of q
RECURSIVE IsSubsequence(_, _)
IsSubsequence(p, q) ==
    IF p = <<>> THEN TRUE
    ELSE IF q = <<>> THEN FALSE
    ELSE IF Head(p) = Head(q) THEN IsSubsequence(Tail(p), Tail(q))
    ELSE IsSubsequence(p, Tail(q))

\* the texts of the calls that ended in success or in an InputError skip,
\* concatenated in call order
RECURSIVE SubmittedUpTo(_)
SubmittedUpTo(n) ==
    IF n = 0 THEN <<>>
    ELSE SubmittedUpTo(n - 1) \o
            (IF calls[n].outcome \in {"ok", "TtsInputError"} THEN calls[n].text ELSE <<>>)

\* q is p with "." characters inserted and nothing else changed
OnlyDotsAdded(p, q) ==
    /\ IsSubsequence(p, q)
    /\ SelectSeq(p, NotDot) = SelectSeq(q, NotDot)

\* C5: on a normal return the synthesized and skipped texts, in call order,
\* are the input's non-whitespace characters in their order, each once,
\* with nothing added but "." characters.
C5_TextReconstructed ==
    status = "returned" =>
        OnlyDotsAdded(NonWhitespace(text), NonWhitespace(SubmittedUpTo(Len(calls))))

\* a hard-window split took part in a run that returned
C5_Witness ==
    /\ status = "returned"
    /\ \E j \in 1..Len(segments) : Len(segments[j]) > settings.max_chars
    /\ Len(calls) >= 2
    /\ Cardinality({k \in 1..Len(text) : text[k] = "a"}) >= 2

\* C6 as stated: with an engine that succeeds on every text it is given,
\* synthesize_text never raises a SizeError.
C6_OversizedNeverFatal ==
    (\A k \in 1..Len(calls) : calls[k].outcome = "ok")
        => ~(status = "raised" /\ IsSizeError(error))

\* C7: an InputError call contributes no chunk, is followed by no sleep, no
\* retry and no split (the next call is for a later piece), never reaches
\* the caller, and the pieces after it are still processed.
C7_InputErrorSkips ==
    /\ error # "TtsInputError"
    /\ \A k \in 1..Len(calls) :
          calls[k].outcome = "TtsInputError" =>
              /\ \A j \in 1..Len(audio_chunks) : audio_chunks[j].call # k
              /\ \A j \in 1..Len(sleeps) : sleeps[j].after_call # k
              /\ k < Len(calls) => Before(calls[k].position, calls[k + 1].position)
              /\ (k = Len(calls) /\ calls[k].pending > 0)
                     => \/ status = "running"
                        \/ status = "raised" /\ IsSizeError(error)
              /\ (k = Len(calls) /\ calls[k].pending = 0) => status = "returned"

\* a skipped segment followed by a synthesized one
C7_Witness ==
    /\ status = "returned"
    /\ Len(calls) = 2
    /\ calls[1].outcome = "TtsInputError"
    /\ calls[2].outcome = "ok"
    /\ Len(audio_chunks) = 1
    /\ audio_chunks[1].call = 2

\* number of sentences of the text, over all its paragraphs
RECURSIVE SentenceCountIn(_, _)
SentenceCountIn(paragraphs, i) ==
    IF i > Len(paragraphs) THEN 0
    ELSE Len(SplitSentences(paragraphs[i])) + SentenceCountIn(paragraphs, i + 1)

MultiSentence(t) == SentenceCountIn(SplitParagraphs(t), 1) >= 2

\* the engine raised SizeError on its first call and succeeded on every
\* later call (so far)
SizeErrorFirstThenOk ==
    \A k \in 1..Len(calls) :
        calls[k].outcome = (IF k = 1 THEN "TtsSizeError" ELSE "ok")

FatalOutcomes == {"TtsModelError", "ValueError"}

\* C9: a call that raises anything but InputError, SizeError or
\* TransientError is the last engine call of the run: the error reaches the
\* caller, no sleep follows it and no chunk comes from it.
C9_FatalPropagates ==
    \A k \in 1..Len(calls) :
        calls[k].outcome \in FatalOutcomes =>
            /\ k = Len(calls)
            /\ status = "raised"
            /\ error = calls[k].outcome
            /\ \A j \in 1..Len(sleeps) : sleeps[j].after_call # k
            /\ \A j \in 1..Len(audio_chunks) : audio_chunks[j].call # k

\* a fatal error on the first of several segments, after a retry
C9_Witness ==
    /\ status = "raised"
    /\ error \in FatalOutcomes
    /\ Len(calls) >= 2
    /\ calls[Len(calls)].pending > 0
    /\ calls[Len(calls)].attempt > 0

\* the (text, output_path) pairs of a call log
PairsOf(log) == [k \in 1..Len(log) |-> <<log[k].text, log[k].output_path>>]

NotTransient(c) == c.outcome # "TtsTransientError"

\* the engine calls of the first and of the second run made so far
AllCalls ==
    {calls[k] : k \in 1..Len(calls)}
        \cup (IF history = <<>> THEN {}
              ELSE {history[1].calls[k] : k \in 1..Len(history[1].calls)})

\* C10 as stated: after a first run that returned, the second run submits
\* the same sequence of (text, output_path) pairs as the first and renders
\* no audio.
C10_Original ==
    (run = 2 /\ Terminated /\ history[1].status = "returned") =>
        /\ PairsOf(calls) = PairsOf(history[1].calls)
        /\ \A k \in 1..Len(calls) : ~calls[k].rendered

\* C10 amended: in both runs every attempt carries a path and two attempts
\* carry the same path exactly when they submit the same text; after a
\* first run that returned, the second run returns, submits the pairs of the
\* first run without its transiently failed attempts, and renders no audio.
C10_RerunSamePaths ==
    /\ \A c \in AllCalls : c.output_path # NoPath
    /\ \A c, d \in AllCalls : (c.text = d.text) <=> (c.output_path = d.output_path)
    /\ (run = 2 /\ Terminated /\ history[1].status = "returned") =>
          /\ status = "returned"
          /\ PairsOf(calls) = PairsOf(SelectSeq(history[1].calls, NotTransient))
          /\ \A k \in 1..Len(calls) : ~calls[k].rendered

\* a re-run after a first run that retried, split an oversized segment and
\* rendered its pieces
C10_Witness ==
    /\ run = 2
    /\ status = "returned"
    /\ history[1].status = "returned"
    /\ Len(calls) >= 2
    /\ \E k \in 1..Len(calls) : Len(calls[k].position) >= 2
    /\ \E k \in 1..Len(history[1].calls) :
          history[1].calls[k].outcome = "TtsTransientError"
    /\ files # {}

\* the calls of a log that rendered new audio
RenderedIn(log) == {k \in 1..Len(log) : log[k].rendered}

\* the paths of the calls of a log that rendered new audio
RenderedPaths(log) == {log[k].output_path[1] : k \in RenderedIn(log)}

\* C11: the cache files written before synthesize_text failed stay in
\* place (every path rendered in either run is still a file), a re-run
\* gives each text the path the failed run gave it, and no path is
\* rendered twice, neither within a run nor by the re-run, so the re-run
\* renders only the pieces that the failed run had not rendered.
C11_PartialProgressKept ==
    /\ RenderedPaths(calls) \subseteq files
    /\ \A k, j \in RenderedIn(calls) :
          (calls[k].output_path = calls[j].output_path) => (k = j)
    /\ (run = 2 /\ history[1].status = "raised") =>
          /\ history[1].files \subseteq files
          /\ RenderedPaths(history[1].calls) = history[1].files
          /\ RenderedPaths(calls) \cap history[1].files = {}
          /\ \A k \in 1..Len(calls) : \A j \in 1..Len(history[1].calls) :
                (calls[k].text = history[1].calls[j].text)
                    => (calls[k].output_path = history[1].calls[j].output_path)

\* the first run rendered a first segment and failed at a later one; the
\* re-run took the first from the cache and rendered the other
C11_Witness ==
    /\ run = 2
    /\ status = "returned"
    /\ history[1].status = "raised"
    /\ history[1].files # {}
    /\ \E k \in 1..Len(calls) :
          /\ calls[k].outcome = "ok"
          /\ ~calls[k].rendered
          /\ calls[k].output_path[1] \in history[1].files
    /\ \E k \in 1..Len(calls) :
          /\ calls[k].rendered
          /\ calls[k].output_path[1] \notin history[1].files

\* the value returned by the call of a pure function
Returned == returned[1]

\* C12 as stated: no Segment returned by segment() is longer than the
\* effective hard maximum of the segmenter, the appended punctuation
\* character included.
C12_HardMaxRespected ==
    (returned # <<>> /\ call.fn = "segment") =>
        \A k \in 1..Len(Returned) : Len(Returned[k].text) <= HardMax(call.self)

\* t ends with a terminal mark followed only by closing characters: its
\* last character that is not a closing character is one of . ! ? ; :
TerminatedText(t) ==
    \E k \in 1..Len(t) :
        /\ t[k] \notin ClosingChars
        /\ \A j \in (k + 1)..Len(t) : t[j] \in ClosingChars
        /\ t[k] \in TerminalChars

\* C13: with punctuation enforcement on, every returned Segment ends with a
\* terminal mark optionally followed by closing characters; the function
\* applied to each flushed chunk leaves a text that ends so unchanged and
\* appends exactly one "." to any other text.
C13_TerminalPunctuation ==
    (returned # <<>> /\ call.fn = "segment" /\ call.self.ensure_terminal_punctuation) =>
        /\ \A k \in 1..Len(Returned) :
              /\ TerminatedText(Returned[k].text)
              /\ SegEnsureTerminalPunctuation(Returned[k].text) = Returned[k].text
        /\ SegEnsureTerminalPunctuation(call.text) =
              IF TerminatedText(call.text) THEN call.text ELSE call.text \o <<".">>

\* of the two chunks of "a ;" the first came back with the "." appended
\* and the second unchanged
C13_Witness ==
    /\ returned # <<>>
    /\ call.fn = "segment"
    /\ call.self.ensure_terminal_punctuation
    /\ call.text = <<"a", " ", ";">>
    /\ Len(Returned) = 2
    /\ Returned[1].text = <<"a", ".">>
    /\ Returned[2].text = <<";">>

\* C14: segment() returns the empty list exactly when the text is empty or
\* whitespace-only, and the indices of the returned segments are
\* 0, 1, ..., n-1 in the order of the list.
C14_NonEmptyAndIndexed ==
    (returned # <<>> /\ call.fn = "segment") =>
        /\ (Returned = <<>>) <=> IsBlank(call.text)
        /\ \A k \in 1..Len(Returned) : Returned[k].index = k - 1

\* a text with two paragraphs came back as more than one segment
C14_Witness ==
    /\ returned # <<>>
    /\ call.fn = "segment"
    /\ ~IsBlank(call.text)
    /\ Len(Returned) >= 2
    /\ \E i \in 1..Len(call.text) : call.text[i] = "\n"

\* an optional string with None read as ""
NoneAsEmpty(x) == IF x = <<>> THEN <<"">> ELSE x

\* the multiple of 1/10000 nearest to a speed given in 1/100000ths
Nearest4(speed) ==
    CHOOSE q \in {speed \div 10, speed \div 10 + 1} :
        /\ 10 * q - speed < 5
        /\ speed - 10 * q < 5

\* the normalized request: None is "" in the four optional arguments and
\* the speed is rounded to 4 decimals
Normalized(r) ==
    [r EXCEPT !.voice = NoneAsEmpty(r.voice), !.lang_code = NoneAsEmpty(r.lang_code),
              !.ref_audio_id = NoneAsEmpty(r.ref_audio_id),
              !.ref_text = NoneAsEmpty(r.ref_text), !.speed = Nearest4(r.speed)]

\* C15: two calls of chunk_cache_key return the same key exactly when
\* their normalized requests are equal; so a change of any one argument
\* that changes the normalized request changes the key.
C15_KeyIffNormalizedEqual ==
    (returned # <<>> /\ call.fn = "chunk_cache_key") =>
        ((Returned[1] = Returned[2]) <=> (Normalized(call.a) = Normalized(call.b)))

\* two requests that differ in the speed only, beyond the rounding, got
\* different keys
C15_Witness ==
    /\ returned # <<>>
    /\ call.fn = "chunk_cache_key"
    /\ call.a.speed = 100001
    /\ call.b = [call.a EXCEPT !.speed = 100006]
    /\ call.a.voice = <<>>
    /\ Returned[1] # Returned[2]

\* the key is one that chunk_cache_key produces: "tts_" and a hexdigest
Produced(key) == key.prefix = KeyPrefix /\ Len(key.digest) >= 2

\* the shard directory of a path
ShardDir(path) == path.dir[Len(path.dir)]

\* C16 as stated: the shard directory of a produced key is named by the
\* first two hex characters of its digest, and two produced keys whose
\* digests start with different two characters get different shard
\* directories.
C16_ShardedByDigest ==
    (returned # <<>> /\ call.fn = "chunk_path" /\ Produced(call.a) /\ Produced(call.b)) =>
        /\ ShardDir(Returned[1]) = Take(call.a.digest, 2)
        /\ ShardDir(Returned[2]) = Take(call.b.digest, 2)
        /\ (Take(call.a.digest, 2) # Take(call.b.digest, 2))
              => (Returned[1].dir # Returned[2].dir)

\* C17: once the worker count is resolved, it is 1 whenever the chapter
\* parallelism is thread-based and the "mlx" engine is not marked safe for
\* concurrent use, whatever chapter_workers and the number of chapters are.
C17_UnsafeThreadsOneWorker ==
    (workers # <<>> /\ config.engine = "mlx" /\ config.chapter_parallelism = "thread"
        /\ ~config.unsafe_mlx_parallelism) => (workers[1] = 1)

\* three workers were configured for a book of several chapters
C17_Witness ==
    /\ workers = <<1>>
    /\ config.chapter_workers = <<3>>
    /\ config.chapter_parallelism = "thread"
    /\ ~config.unsafe_mlx_parallelism
    /\ Len(book) >= 2
    /\ pc = "loop"

\* the chapter indices of a list of ChapterResult or ChapterAudio records
ResultIndices(results) == [k \in 1..Len(results) |-> results[k].chapter_index]

AudioIndices(audio) == [k \in 1..Len(audio) |-> audio[k].index]

BookIndices == [k \in 1..Len(book) |-> book[k].index]

Ascending(indices) == \A i, j \in 1..Len(indices) : (i < j) => (indices[i] < indices[j])

\* C18: when _process_book has returned, chapter_results holds exactly one
\* result per chapter of the book, in ascending order of chapter_index, in
\* whatever order the chapters completed; the list that
\* _collect_chapter_audio builds for packaging holds the chapters with
\* audio in the order of the book.
C18_ResultsSortedByChapter ==
    /\ (pc \in {"returned", "collected"}) =>
          /\ ResultIndices(chapter_results) = BookIndices
          /\ Ascending(ResultIndices(chapter_results))
    /\ (pc = "collected") =>
          /\ Ascending(AudioIndices(chapter_audio))
          /\ \A k \in 1..Len(book) :
                (\E i \in 1..Len(chapter_audio) : chapter_audio[i].index = book[k].index)
                    <=> (chapter_results[k].status = "ok")

\* two chapters ran in a pool, the second one's result was appended first,
\* and both reached packaging
C18_Witness ==
    /\ pc = "collected"
    /\ workers[1] > 1
    /\ completed = <<1, 0>>
    /\ Len(chapter_audio) = 2

\* _process_book is over
BookOver == pc \in {"returned", "raised", "collected"}

\* C19 as stated: when the processing of the book is over, every chapter
\* whose synthesis raised a TtsError or an unclassified exception has a
\* ChapterResult with status "failed", and every chapter of the book was
\* processed, with one worker as with several.
C19_ChapterFailureIsolated ==
    BookOver =>
        /\ \A k \in 1..Len(book) :
              (events[k] \in {"TtsError", "Exception"}) =>
                  \E i \in 1..Len(chapter_results) :
                      /\ chapter_results[i].chapter_index = book[k].index
                      /\ chapter_results[i].status = "failed"
        /\ \A k \in 1..Len(book) :
              \E i \in 1..Len(processed) : processed[i] = book[k].index

\* the positions of the books the run has packaged so far
PackagedInRun == {k \in 1..Len(run_results) : run_results[k].status = "ok" /\ run_results[k].output_path # <<>>}

\* what JsonStateStore.load reads back from an entry of the store
Persisted(entry) == IF entry = <<>> THEN <<>> ELSE <<entry[1].steps, entry[1].artifacts>>

BookFailures == {"read_failed", "pipeline_failed", "packaging_failed"}

\* at the return there is one result per source, in the order of the sources,
\* and a book that failed has the status "failed"
OneResultPerSource ==
    /\ Len(run_results) = Len(sources)
    /\ \A k \in 1..Len(sources) : run_results[k].source = sources[k]
    /\ \A k \in 1..Len(sources) : faults[k] \in BookFailures => run_results[k].status = "failed"

\* an iteration leaves alone the output file and the steps and artifacts
\* persisted for every book packaged earlier in the run
EarlierBooksKept ==
    \A k \in PackagedInRun :
        /\ out_files'[run_results[k].output_path[1]] = out_files[run_results[k].output_path[1]]
        /\ Persisted(state_store'[run_results[k].book_slug]) = Persisted(state_store[run_results[k].book_slug])

\* an iteration that fails leaves the whole state file of every book
\* packaged earlier in the run as it is
FailureKeepsEarlierState ==
    (Len(faults') > Len(faults) /\ faults'[Len(faults')] \in BookFailures) =>
        \A k \in PackagedInRun : state_store'[run_results[k].book_slug] = state_store[run_results[k].book_slug]

\* C20: run_pipeline returns one BookResult per expanded source, in input
\* order; a book whose EPUB read, audio pipeline or packaging fails has the
\* status "failed" and the loop goes on with the later sources; no iteration
\* changes the output file or the persisted steps and artifacts of a book
\* packaged earlier in the run, and a failing iteration changes nothing at
\* all in its state file.
C20_BookFailureIsolated ==
    /\ [](run_pc = "returned" => OneResultPerSource)
    /\ [][EarlierBooksKept /\ FailureKeepsEarlierState]_vars

\* a run of two books: the first is packaged, the packaging of the second
\* fails after ffmpeg began to write its output
C20_Witness ==
    /\ run_pc = "returned"
    /\ faults = <<"packaged", "packaging_failed">>
    /\ out_files["a"] = <<1>>
    /\ out_files["b"] = <<0 - 2>>
    /\ state_store["a"][1].steps.packaged

\* the outcomes of an iteration that called _process_book, and so may have
\* called the TTS engine
ProcessBookCalled == {"pipeline_failed", "no_audio", "packaging_failed", "packaged"}

\* the outcomes of an iteration that called packager.package
PackagerCalled == {"packaging_failed", "packaged"}

\* this step is an iteration of the loop that read its EPUB
ReadsBook == InLoop /\ sources[LoopPosition].exists /\ Len(faults') > Len(faults) /\ faults'[Len(faults')] # "read_failed"

\* the iteration reports "skipped" and calls neither _process_book nor the packager
SkipsBook ==
    /\ run_results'[Len(run_results')].status = "skipped"
    /\ faults'[Len(faults')] \notin ProcessBookCalled \cup PackagerCalled
    /\ out_files' = out_files

\* the iteration processes the book again: unless it packages the book
\* anew, the state it leaves in the store has packaged = false
ReprocessesBook ==
    /\ faults'[Len(faults')] \in ProcessBookCalled
    /\ faults'[Len(faults')] # "packaged" => ~state_store'[TitleSlug(sources[LoopPosition])][1].steps.packaged
    /\ faults'[Len(faults')] = "packaged" => out_files'[BookOutputPath(TitleSlug(sources[LoopPosition]))] = <<LoopPosition>>

\* C21: for a book that run_pipeline reads, a persisted state with
\* packaged = true and an existing output M4B make the iteration report
\* "skipped" without calling the TTS engine or the packager; with
\* packaged = true and the output missing, packaged is reset to false in the
\* persisted state and the book is processed again.
C21_SkipOrReprocess ==
    [][ReadsBook =>
        /\ (Packaged(sources[LoopPosition]) /\ OutputExists(sources[LoopPosition])) => SkipsBook
        /\ (Packaged(sources[LoopPosition]) /\ ~OutputExists(sources[LoopPosition])) => ReprocessesBook]_vars

\* book "a" was packaged and has its output: skipped; book "b" was packaged
\* and lost its output: processed again, and its pipeline failed
C21_Witness ==
    /\ faults = <<"skipped", "pipeline_failed">>
    /\ run_results[1].book_slug = "a" /\ run_results[1].status = "skipped"
    /\ run_results[2].book_slug = "b"
    /\ state_store["b"][1].artifacts.source_path[1].stem = "prior"
    /\ ~state_store["b"][1].steps.packaged
    /\ out_files["b"] = <<>>

\* the splits performed along the chain of nested splits that leads from an
\* original segment to the current piece: one per frame above the first
SplitsOnChain == IF stack = <<>> THEN 0 ELSE Len(stack) - 1

DepthExceeded == status = "raised" /\ error = "TtsSizeError: Maximum split depth exceeded."

\* the current piece has to be split: it is longer than max_chars, or the
\* engine has just raised TtsSizeError for it
SplitNeeded ==
    /\ status = "running"
    /\ \/ Len(CurrentText) > settings.max_chars
       \/ Len(calls') > Len(calls) /\ calls'[Len(calls')].outcome = "TtsSizeError"

\* C22 as stated: at most 8 splits are performed along a chain, and the
\* error 'Maximum split depth exceeded' is raised for the split that would
\* be the 9th.
C22_Original ==
    /\ SplitsOnChain <= 8
    /\ DepthExceeded => SplitsOnChain = 8

\* C22 amended: along any chain of nested splits that starts at an original
\* segment at most 9 splits are performed (at the depths 0 to 8), and a
\* split that would be the 10th raises SizeError ('Maximum split depth
\* exceeded') instead of being performed.
C22_SplitDepthBounded ==
    /\ [](SplitsOnChain <= 9 /\ (DepthExceeded => SplitsOnChain = 9))
    /\ [][(SplitNeeded /\ SplitsOnChain = 9) => (DepthExceeded' /\ stack' = stack)]_vars

\* a chain of nine nested splits ended in the error
C22_Witness ==
    /\ DepthExceeded
    /\ SplitsOnChain = 9
    /\ \A k \in 1..Len(stack) : stack[k].depth = k - 1

\* the text that entered the split whose pieces the innermost loop processes
SplitParent == stack[Len(stack) - 1].pieces[stack[Len(stack) - 1].i]

\* C23: every split makes progress: each piece of a split that is submitted
\* for synthesis is strictly shorter than the text that entered the split,
\* whether that text was longer than max_chars or had a TtsSizeError from
\* the engine.
C23_SplitMakesProgress ==
    (status = "running" /\ Len(stack) >= 2) => Len(CurrentText) < Len(SplitParent)

\* the calls made so far for the piece of call k that raised TransientError
\* before call k: the number i of the failure of call k, counted from 0
FailuresBefore(k) ==
    Cardinality({j \in 1..(k - 1) : calls[j].position = calls[k].position
                                       /\ calls[j].outcome = "TtsTransientError"})

\* call k raised TransientError and is retried
Retried(k) ==
    /\ calls[k].outcome = "TtsTransientError"
    /\ ~(k = Len(calls) /\ status = "raised")

SleepsAfter(k) == {j \in 1..Len(sleeps) : sleeps[j].after_call = k}

\* the delay of the retry after the failure number i, in hundredths, times Scale
ExpectedDelayScaled(i) ==
    IF settings.backoff_jitter > 0
    THEN settings.backoff_base * (2 ^ i) * (Scale + settings.backoff_jitter)
    ELSE settings.backoff_base * (2 ^ i) * Scale

\* C24: sleep_fn is called exactly once after every TransientError that is
\* retried and at no other time; the delay after the failure number i
\* (i = 0, 1, ...) of a piece is backoff_base * 2^i, times
\* (1 + backoff_jitter) when backoff_jitter > 0; the retry is the next
\* engine call and resubmits the same text.
C24_BackoffBeforeRetry ==
    /\ \A k \in 1..Len(calls) : Cardinality(SleepsAfter(k)) = (IF Retried(k) THEN 1 ELSE 0)
    /\ \A j \in 1..Len(sleeps) :
          /\ sleeps[j].after_call \in 1..Len(calls)
          /\ \A h \in 1..(j - 1) : sleeps[h].after_call < sleeps[j].after_call
          /\ sleeps[j].delay * Scale = ExpectedDelayScaled(FailuresBefore(sleeps[j].after_call))
          /\ sleeps[j].after_call < Len(calls) =>
                /\ calls[sleeps[j].after_call + 1].text = calls[sleeps[j].after_call].text
                /\ calls[sleeps[j].after_call + 1].position = calls[sleeps[j].after_call].position

\* three failures of one piece with a positive jitter, then success: the
\* delays are 2.5, 5 and 10 times 1.5
C24_Witness ==
    /\ status = "returned"
    /\ settings.backoff_base = 250 /\ settings.backoff_jitter = 50
    /\ Len(calls) = 4
    /\ [j \in 1..Len(sleeps) |-> sleeps[j].delay] = <<375, 750, 1500>>
    /\ calls[4].outcome = "ok"

TransientCalls == {k \in 1..Len(calls) : calls[k].outcome = "TtsTransientError"}

\* C25: the retry counter is per piece: the counter of a call is the number
\* of TransientErrors that the same segment or split piece has had before,
\* whatever earlier segments, sibling pieces and the parent text consumed,
\* so a TransientError ends the run only when its own piece has failed
\* max_retries times before, and a piece that failed up to max_retries
\* times is called again.
C25_RetryCounterPerPiece ==
    /\ \A k \in 1..Len(calls) : calls[k].attempt = FailuresBefore(k)
    /\ \A k \in TransientCalls :
          IF FailuresBefore(k) < settings.max_retries
          THEN Retried(k)
          ELSE k = Len(calls) /\ status = "raised" /\ error = "TtsTransientError"

\* the parent text failed max_retries times and was then split after a
\* SizeError; its piece failed again and was still synthesized
C25_Witness ==
    /\ status = "returned"
    /\ Cardinality(TransientCalls) > settings.max_retries
    /\ \E k \in TransientCalls : Len(calls[k].position) = 1 /\ FailuresBefore(k) = settings.max_retries - 1
    /\ \E k \in TransientCalls : Len(calls[k].position) = 2
    /\ calls[Len(calls)].outcome = "ok"

\* the least length the chunk of a returned segment can have had before
\* _ensure_terminal_punctuation: at most one "." was appended
LengthBeforePunctuation(g, seg) ==
    IF g.ensure_terminal_punctuation THEN Len(seg.text) - 1 ELSE Len(seg.text)

\* C26: a piece is joined to the accumulator whenever the joined length is
\* at most max_limit; the length of a segment before punctuation exceeds
\* max_limit, and then never hard_limit, only when the accumulator was
\* shorter than min_chars before the piece that crossed max_limit was
\* added; otherwise the accumulator is flushed and the piece starts a new
\* one. On the returned segments: none is longer than hard_limit before
\* punctuation, and with min_chars = 0, where no accumulator is shorter than
\* min_chars, none is longer than max_limit.
C26_ExceedsOnlyForMinChars ==
    (returned # <<>> /\ call.fn = "segment") =>
        \A k \in 1..Len(Returned) :
            /\ LengthBeforePunctuation(call.self, Returned[k]) <= HardLimit(call.self)
            /\ call.self.min_chars = 0 =>
                  LengthBeforePunctuation(call.self, Returned[k]) <= MaxLimit(call.self)

\* the engine calls made for the piece at position p
CallsFor(p) == {j \in 1..Len(calls) : calls[j].position = p}

Finished == status \in {"returned", "raised"}

\* C27: synthesize_text terminates, by returning or by raising, when every
\* engine call returns or raises: a piece is attempted at most
\* max_retries + 1 times, the nesting of splits is bounded, and every run
\* ends.
C27_Terminates ==
    /\ [](\A k \in 1..Len(calls) : Cardinality(CallsFor(calls[k].position)) <= settings.max_retries + 1)
    /\ [](Len(stack) <= MaxSplitDepth + 2)
    /\ <>Finished

\* a run that ended after a split and after max_retries + 1 attempts of one
\* of the pieces of the split
C27_Witness ==
    /\ status = "raised"
    /\ error = "TtsTransientError"
    /\ Len(stack) >= 2
    /\ Cardinality(CallsFor(calls[Len(calls)].position)) = settings.max_retries + 1

\* the chapter positions that a worker of the executor has taken
PoolRun == {k \in 1..Len(engine_use) : engine_use[k] # <<>> /\ engine_use[k][1].worker # MainThread}

\* the engines that worker w has passed to _process_chapter
EnginesOf(w) == {engine_use[k][1].engine : k \in {j \in PoolRun : engine_use[j][1].worker = w}}

\* the workers that have passed the engine e to _process_chapter
UsersOf(e) == {engine_use[k][1].worker : k \in {j \in PoolRun : engine_use[j][1].engine = e}}

\* C28: in thread-parallel chapter processing every worker thread uses one
\* engine for all the chapters it processes, an engine it built itself, and
\* no engine is used by two worker threads; in process-parallel mode the
\* engine of every chapter task was built by the worker process that runs it,
\* never by the parent
C28_EnginePerWorker ==
    \A k \in PoolRun :
        /\ engine_use[k][1].engine.builder = engine_use[k][1].worker
        /\ engine_use[k][1].engine # MainEngine
        /\ Cardinality(UsersOf(engine_use[k][1].engine)) = 1
        /\ config.chapter_parallelism = "thread"
              => /\ Cardinality(EnginesOf(engine_use[k][1].worker)) = 1
                 /\ thread_state[engine_use[k][1].worker] = <<engine_use[k][1].engine>>

\* two worker threads have each processed a chapter with an engine of their own
C28_Witness ==
    /\ config.chapter_parallelism = "thread"
    /\ pc = "returned"
    /\ PoolRun = {1, 2}
    /\ engine_use[1][1].worker # engine_use[2][1].worker
    /\ engine_use[1][1].engine # engine_use[2][1].engine

\* C29: a chapter is reported "ok" only with the audio of all of its chunks
\* in order, in the first run and in every later one
C29_OkHoldsAllChunks ==
    \A r \in 1..Len(chapter_runs) :
        chapter_runs[r].status = "ok"
            => chapter_runs[r].audio = FramesOf(1, Len(chunk_files))

\* C30: every state in the store with packaged = true has chapters = true, so
\* no book skipped as already packaged lacks a failed chapter
C30_PackagedImpliesChapters ==
    \A s \in Slugs :
        state_store # <<>> /\ state_store[s] # <<>> /\ state_store[s][1].steps.packaged
            => state_store[s][1].steps.chapters

====
